---- MODULE Spec2Model ----
(***************************************************************************)
(* A model of the edge-first attention engine of the desktop companion:    *)
(* ObservationBuffer, IdleDetector, SignificanceScorer and ThinkingEngine  *)
(* (backend/thinking_engine.py) and the poll loop that drives them         *)
(* (backend/main.py).                                                      *)
(*                                                                         *)
(* Time is the integer number of seconds read by time.time(); every        *)
(* handler runs between two awaits of the cooperative scheduler and so     *)
(* reads one value of the clock.  Text is a sequence of characters, so     *)
(* that str.lower() is a computation.  A score is an exact fraction        *)
(* <<num, den>>.                                                           *)
(***************************************************************************)
EXTENDS Integers, Sequences, FiniteSets, TLC

VARIABLES
    now,                    \* time.time()
    state,                  \* ThinkingEngine.state
    buffer,                 \* ObservationBuffer.buffer
    context_hashes,         \* ObservationBuffer.context_hashes
    hash_timestamps,        \* ObservationBuffer._hash_timestamps
    last_activity_time,     \* IdleDetector.last_activity_time
    activity_history,       \* IdleDetector._activity_history
    seen_contexts,          \* SignificanceScorer._seen_contexts
    last_significant_time,  \* SignificanceScorer._last_significant_time
    last_thinking_cycle,    \* ThinkingEngine._last_thinking_cycle
    last_notification_time, \* ThinkingEngine._last_notification_time
    saved_thoughts,         \* ThinkingEngine._saved_thoughts
    cycle_count,            \* ThinkingEngine._cycle_count
    gemini_call_count,      \* ThinkingEngine._gemini_call_count
    stats,                  \* ThinkingEngine._stats
    reaction_queue,         \* main.reaction_queue
    transition_log,         \* the transition update_state logged on its last call, or <<>>
    cycle_result,           \* significant_observations of the last ThinkingCycleResult
    loop_pc,                \* where thinking_cycle_loop is suspended
    loop_state,             \* thinking_cycle_loop's local `state`
    loop_todo,              \* significant observations the loop's for has still to visit
    loop_obs,               \* the observation process_significant_observation was called with
    sleep_until,            \* when the loop's asyncio.sleep ends
    capture_tasks,          \* process_observation tasks suspended in mind.analyze_image_async
    score_ret,              \* what the last direct call of SignificanceScorer.score returned
    score_args,             \* <<observation, previous_obs, activity_intensity>> of that call
    pending_thoughts,       \* ThinkingEngine._pending_thoughts
    staging_kb,             \* the context signatures stored by database.add_to_staging_kb
    pending_episodes,       \* what fog_layer.get_pending_episodes returned to run_deep_thinking
    chat_response,          \* the thoughts in the last response of chat_endpoint
    last_op,                \* the handler that ran last
    ret                     \* what it returned

vars == <<now, state, buffer, context_hashes, hash_timestamps, last_activity_time,
          activity_history, seen_contexts, last_significant_time, last_thinking_cycle,
          last_notification_time, saved_thoughts, cycle_count, gemini_call_count,
          stats, reaction_queue, transition_log, cycle_result, loop_pc, loop_state, loop_todo,
          loop_obs, sleep_until, capture_tasks, score_ret, score_args,
          pending_thoughts, staging_kb, pending_episodes, chat_response, last_op, ret>>

\* the state outside the thinking cycle: the pending thoughts, the staging
\* knowledge, the episodes of the deep-reflection run and the chat response
outer_vars == <<pending_thoughts, staging_kb, pending_episodes, chat_response>>

engine_vars == <<state, buffer, context_hashes, hash_timestamps, last_activity_time,
          activity_history, seen_contexts, last_significant_time, last_thinking_cycle,
          last_notification_time, saved_thoughts, cycle_count, gemini_call_count,
          stats, reaction_queue, transition_log, cycle_result>>

loop_vars == <<loop_pc, loop_state, loop_todo, loop_obs, sleep_until>>

(***************************************************************************)
(* Program constants.                                                      *)
(***************************************************************************)
max_size == 10
recent_hash_ttl == 30
idle_threshold == 120
resting_after == 300
history_maxlen == 100
activity_window == 60
thinking_cycle_interval == 10
notification_cooldown == 15
stale_after == 300
saved_thoughts_cap == 10
poll_delay == 5
initial_delay == 10

(***************************************************************************)
(* Bounds of the model.                                                    *)
(***************************************************************************)
\* time.time() when the engine is constructed: the epoch clock is far past
\* every interval of the program, so the clocks initialised to 0 are stale.
EpochStart == 1000
\* observations_total is capped at this many buffer_observation calls
MaxObsBuf == 4
\* cycle_count is capped at this many thinking cycles
MaxCyclesBuf == 1
\* observations_total and cycle_count in the specification of clear
MaxObsClear == 3
MaxCyclesClear == 1
\* observations_total in the capacity specification
MaxObsCap == 11
\* observations_total and cycle_count in the state-machine specification
MaxObsState == 2
MaxCyclesState == 2
\* observations_total and cycle_count in the specification of the poll loop
MaxObsLoop == 2
MaxCyclesLoop == 2
\* observations_total and cycle_count in the specification of the idle user
MaxObsIdle == 2
MaxCyclesIdle == 2
\* thoughts_saved in the specification of the saved thoughts
MaxThoughts == 11
\* observations handed to process_observation in the specification of the
\* capture path
MaxObsCapture == 3
\* calls of score for one context hash in the specification of the scorer
MaxSeen == 2
\* observations and thinking cycles in the specification of the faults
MaxObsFault == 2
MaxCyclesFault == 2
\* observations and thinking cycles in the specification of the two tiers
MaxObsTiers == 3
MaxCyclesTiers == 2
\* observations and thinking cycles in the specification under fairness
MaxObsLive == 2
MaxCyclesLive == 5
\* observations and thinking cycles in the specification of the slow calls
MaxObsSlow == 2
MaxCyclesSlow == 2
\* distinct window titles, and events up to which the first titles may
\* repeat, in the specification of the idle detector
\* episodes handed out to one run of the deep-reflection processing, and
\* the staging entries after which no further run starts
MaxEpisodes == 2
MaxStaged == 2
MaxTitles == 11
\* thoughts saved, and thoughts pending at a time, in the specification of
\* the chat
MaxSavedChat == 2
MaxPendingChat == 2
\* captures triggered in the specification of the concurrent tasks
MaxObsOrder == 4
\* calls of buffer_observation, and calls that give the first window, in
\* the specification of the deduplication
MaxObsDedup == 13
MaxSameDedup == 3
MaxRepeats == 4

(***************************************************************************)
(* Text: str.lower() and the context hash.                                 *)
(***************************************************************************)
LowerChar(c) ==
    CASE c = "C" -> "c"
      [] c = "M" -> "m"
      [] c = "N" -> "n"
      [] c = "U" -> "u"
      [] c = "L" -> "l"
      [] c = "O" -> "o"
      [] c = "E" -> "e"
      [] OTHER -> c

Lower(s) == [i \in 1..Len(s) |-> LowerChar(s[i])]

\* hashlib.md5(f"{app_name}:{window_title}".lower().encode()).hexdigest()[:16]:
\* the digest is taken to be one-to-one on the lowered content.
HashContextNoLower(window_title, app_name) == app_name \o <<":">> \o window_title

hash_context(window_title, app_name) == Lower(app_name \o <<":">> \o window_title)

(***************************************************************************)
(* ObservationBuffer.                                                      *)
(***************************************************************************)
\* deque(maxlen=max_size).append
DequeAppendDropNewest(buf, x, cap) ==
    IF Len(buf) >= cap THEN buf ELSE Append(buf, x)

DequeAppendGrow(buf, x, cap) == Append(buf, x)

DequeAppend(buf, x, cap) ==
    IF Len(buf) >= cap THEN Append(Tail(buf), x) ELSE Append(buf, x)

\* _cleanup_old_hashes: the hashes that stay at time t
LiveHashesEarly(hashes, stamps, t) ==
    {h \in hashes : ~(stamps[h] <= t - recent_hash_ttl)}

LiveHashesNever(hashes, stamps, t) == hashes

LiveHashes(hashes, stamps, t) ==
    {h \in hashes : ~(stamps[h] < t - recent_hash_ttl)}

\* ObservationBuffer.add at time t: the buffer's three fields and the result
BufferAddRefresh(buf, hashes, stamps, obs, t) ==
    LET live == LiveHashes(hashes, stamps, t)
        h == obs.context_hash
    IN  IF h \in live
        THEN [buffer |-> buf, context_hashes |-> live,
              hash_timestamps |-> [x \in live |-> IF x = h THEN t ELSE stamps[x]],
              result |-> FALSE]
        ELSE [buffer |-> DequeAppend(buf, obs, max_size),
              context_hashes |-> live \cup {h},
              hash_timestamps |-> [x \in live \cup {h} |-> IF x = h THEN t ELSE stamps[x]],
              result |-> TRUE]

BufferAdd(buf, hashes, stamps, obs, t) ==
    LET live == LiveHashes(hashes, stamps, t)
        h == obs.context_hash
    IN  IF h \in live
        THEN [buffer |-> buf, context_hashes |-> live,
              hash_timestamps |-> [x \in live |-> stamps[x]],
              result |-> FALSE]
        ELSE [buffer |-> DequeAppend(buf, obs, max_size),
              context_hashes |-> live \cup {h},
              hash_timestamps |-> [x \in live \cup {h} |-> IF x = h THEN t ELSE stamps[x]],
              result |-> TRUE]

\* ObservationBuffer.clear: the recency set is kept
BufferClearAll == [buffer |-> <<>>, context_hashes |-> {}, hash_timestamps |-> <<>>]

BufferClear == [buffer |-> <<>>, context_hashes |-> context_hashes,
                hash_timestamps |-> hash_timestamps]

(***************************************************************************)
(* IdleDetector.                                                           *)
(***************************************************************************)
is_idle == now - last_activity_time > idle_threshold

get_idle_duration == IF now - last_activity_time > 0 THEN now - last_activity_time ELSE 0

\* get_activity_intensity, in tenths
\* get_activity_intensity without its test for fewer than 2 events
GetActivityIntensityNoFloor ==
    LET cutoff == now - activity_window
        recent == {i \in 1..Len(activity_history) : activity_history[i].timestamp >= cutoff}
        unique_windows == {activity_history[i].window : i \in
                              {j \in recent : activity_history[j].window # <<>>}}
    IN  IF Cardinality(unique_windows) > 10 THEN 10
        ELSE Cardinality(unique_windows)

get_activity_intensity ==
    LET cutoff == now - activity_window
        recent == {i \in 1..Len(activity_history) : activity_history[i].timestamp >= cutoff}
        unique_windows == {activity_history[i].window : i \in
                              {j \in recent : activity_history[j].window # <<>>}}
    IN  IF Cardinality(recent) < 2 THEN 0
        ELSE IF Cardinality(unique_windows) > 10 THEN 10
        ELSE Cardinality(unique_windows)

(***************************************************************************)
(* ThinkingEngine.                                                         *)
(***************************************************************************)
ShouldRunStrict == now - last_thinking_cycle > thinking_cycle_interval

\* no cycle while the user is idle
ShouldRunWhenAwake ==
    /\ now - last_thinking_cycle >= thinking_cycle_interval
    /\ ~(now - last_activity_time > idle_threshold)

\* a cycle on every iteration of the poll loop
ShouldRunEveryPoll == now - last_thinking_cycle >= poll_delay

should_run_thinking_cycle == now - last_thinking_cycle >= thinking_cycle_interval

can_notify == now - last_notification_time >= notification_cooldown

Bump(s, key) == [s EXCEPT ![key] = @ + 1]

Observation(window_title, app_name, app_category, image_bytes) ==
    [window_title |-> window_title, app_name |-> app_name,
     app_category |-> app_category,
     context_hash |-> hash_context(window_title, app_name),
     timestamp |-> now, image_bytes |-> image_bytes, description |-> "None",
     significance_score |-> <<0, 1>>]

\* ThinkingEngine.buffer_observation
BufferObservation(window_title, app_name, app_category, image_bytes, cap) ==
    LET obs == Observation(window_title, app_name, app_category, image_bytes)
        r == BufferAdd(buffer, context_hashes, hash_timestamps, obs, now)
    IN  /\ stats.observations_total < cap
        /\ activity_history' =
              DequeAppend(activity_history,
                          [timestamp |-> now, window |-> window_title], history_maxlen)
        /\ last_activity_time' = now
        /\ buffer' = r.buffer
        /\ context_hashes' = r.context_hashes
        /\ hash_timestamps' = r.hash_timestamps
        /\ stats' = Bump(Bump(stats, "observations_total"),
                         IF r.result THEN "observations_buffered"
                                     ELSE "observations_deduplicated")
        /\ ret' = (IF r.result THEN "True" ELSE "False")
        /\ last_op' = "buffer_observation"
        /\ UNCHANGED outer_vars
        /\ UNCHANGED <<score_ret, score_args>>
        /\ UNCHANGED capture_tasks
        /\ UNCHANGED <<now, state, seen_contexts, last_significant_time,
                       last_thinking_cycle, last_notification_time, saved_thoughts,
                       cycle_count, gemini_call_count, reaction_queue, transition_log,
                       cycle_result>>
        /\ UNCHANGED loop_vars

(***************************************************************************)
(* SignificanceScorer.  A score is the exact fraction <<num, den>>; the    *)
(* terms other than novelty are whole multiples of 1/200.  With at most    *)
(* three distinct window titles in the trailing minute the float sum of    *)
(* the code falls on the same side of 0.4 and of 0.6 as the exact one.     *)
(***************************************************************************)
\* a >= b and a < b on fractions
FracGE(a, b) == a[1] * b[2] >= b[1] * a[2]

FracLT(a, b) == a[1] * b[2] < b[1] * a[2]

significance_threshold == <<2, 5>>
\* an analysis threshold above the significance threshold
GeminiThresholdHigh == <<3, 5>>

gemini_threshold == <<2, 5>>
focused_bar == <<3, 5>>

LowerCategory(c) ==
    CASE c = "Development" -> "development"
      [] c = "Media" -> "media"
      [] OTHER -> c

\* _category_weights.get(category.lower(), 0.2), in tenths
category_weight(c) ==
    CASE LowerCategory(c) = "development" -> 6
      [] LowerCategory(c) = "work" -> 5
      [] LowerCategory(c) = "communication" -> 4
      [] LowerCategory(c) = "media" -> 3
      [] LowerCategory(c) = "other" -> 2
      [] OTHER -> 2

SeenCount(seen, h) == IF h \in DOMAIN seen THEN seen[h] ELSE 0

\* score without its min(1.0, .)
ScoreUncapped(obs, previous_obs, ai, seen, last_sig, t) ==
    LET seen_count == SeenCount(seen, obs.context_hash)
        category == category_weight(obs.app_category) * 4
        change == IF previous_obs # <<>>
                  THEN (IF obs.app_name # previous_obs[1].app_name THEN 40 ELSE 0)
                       + (IF obs.app_category # previous_obs[1].app_category THEN 30 ELSE 0)
                  ELSE 20
        focus_bonus == (10 - ai) * 3
        stale == IF t - last_sig > stale_after THEN 20 ELSE 0
        rest == category + change + focus_bonus + stale
    IN  <<rest * (2 + seen_count) + 120, 200 * (2 + seen_count)>>

\* score with a novelty that grows with the repeats
ScoreNoveltyGrows(obs, previous_obs, ai, seen, last_sig, t) ==
    LET seen_count == SeenCount(seen, obs.context_hash)
        category == category_weight(obs.app_category) * 4
        change == IF previous_obs # <<>>
                  THEN (IF obs.app_name # previous_obs[1].app_name THEN 40 ELSE 0)
                       + (IF obs.app_category # previous_obs[1].app_category THEN 30 ELSE 0)
                  ELSE 20
        focus_bonus == (10 - ai) * 3
        stale == IF t - last_sig > stale_after THEN 20 ELSE 0
        rest == category + change + focus_bonus + stale
        num == rest * (2 + seen_count) + 30 * (1 + seen_count) * (2 + seen_count)
        den == 200 * (2 + seen_count)
    IN  IF num >= den THEN <<1, 1>> ELSE <<num, den>>

\* SignificanceScorer.score: the value returned; previous_obs is <<>> for None
\* and <<obs>> otherwise, activity intensity ai is in tenths, last_sig is the
\* staleness clock, t the time of the call
score(obs, previous_obs, ai, seen, last_sig, t) ==
    LET seen_count == SeenCount(seen, obs.context_hash)
        category == category_weight(obs.app_category) * 4
        change == IF previous_obs # <<>>
                  THEN (IF obs.app_name # previous_obs[1].app_name THEN 40 ELSE 0)
                       + (IF obs.app_category # previous_obs[1].app_category THEN 30 ELSE 0)
                  ELSE 20
        focus_bonus == (10 - ai) * 3
        stale == IF t - last_sig > stale_after THEN 20 ELSE 0
        rest == category + change + focus_bonus + stale
        num == rest * (2 + seen_count) + 120
        den == 200 * (2 + seen_count)
    IN  IF num >= den THEN <<1, 1>> ELSE <<num, den>>

\* the side effect of score: _seen_contexts[hash] = seen_count + 1
MarkSeen(seen, h) ==
    [x \in DOMAIN seen \cup {h} |-> IF x = h THEN SeenCount(seen, h) + 1 ELSE seen[x]]

\* the for loop scoring every observation as if it were the first
RECURSIVE ScoreLoopNoPredecessor(_, _, _, _, _)
ScoreLoopNoPredecessor(observations, previous_obs, ai, acc, t) ==
    IF observations = <<>> THEN acc
    ELSE LET o == Head(observations)
             sc == score(o, <<>>, ai, acc.seen, acc.last_sig, t)
             obs == [o EXCEPT !.significance_score = sc]
             sig == FracGE(sc, significance_threshold)
         IN  ScoreLoopNoPredecessor(Tail(observations), <<obs>>, ai,
                                    [seen |-> MarkSeen(acc.seen, o.context_hash),
                                     last_sig |-> IF sig THEN t ELSE acc.last_sig,
                                     significant |-> IF sig THEN Append(acc.significant, obs)
                                                     ELSE acc.significant],
                                    t)

\* the for loop of run_thinking_cycle over the observations still to score;
\* acc is [seen, last_sig, significant]
RECURSIVE ScoreLoop(_, _, _, _, _)
ScoreLoop(observations, previous_obs, ai, acc, t) ==
    IF observations = <<>> THEN acc
    ELSE LET o == Head(observations)
             sc == score(o, previous_obs, ai, acc.seen, acc.last_sig, t)
             obs == [o EXCEPT !.significance_score = sc]
             sig == FracGE(sc, significance_threshold)
         IN  ScoreLoop(Tail(observations), <<obs>>, ai,
                       [seen |-> MarkSeen(acc.seen, o.context_hash),
                        last_sig |-> IF sig THEN t ELSE acc.last_sig,
                        significant |-> IF sig THEN Append(acc.significant, obs)
                                        ELSE acc.significant],
                       t)

\* run_thinking_cycle keeping in the buffer the observations it did not
\* judge significant
ThinkingCycleKeepsRest ==
    LET observations == buffer
        acc == ScoreLoop(observations, <<>>, get_activity_intensity,
                         [seen |-> seen_contexts, last_sig |-> last_significant_time,
                          significant |-> <<>>], now)
        Dropped(o) == \A i \in 1..Len(acc.significant) :
                         \/ acc.significant[i].context_hash # o.context_hash
                         \/ acc.significant[i].timestamp # o.timestamp
    IN  [seen |-> acc.seen, last_sig |-> acc.last_sig,
         significant |-> acc.significant,
         buffer |-> SelectSeq(buffer, Dropped),
         context_hashes |-> BufferClear.context_hashes,
         hash_timestamps |-> BufferClear.hash_timestamps]

\* run_thinking_cycle at time now: the fields it writes and its result
ThinkingCycle ==
    LET observations == buffer
        acc == ScoreLoop(observations, <<>>, get_activity_intensity,
                         [seen |-> seen_contexts, last_sig |-> last_significant_time,
                          significant |-> <<>>], now)
    IN  [seen |-> acc.seen, last_sig |-> acc.last_sig,
         significant |-> acc.significant,
         buffer |-> BufferClear.buffer,
         context_hashes |-> BufferClear.context_hashes,
         hash_timestamps |-> BufferClear.hash_timestamps]

\* ThinkingEngine.run_thinking_cycle, called on its own
RunThinkingCycle(cap) ==
    LET r == ThinkingCycle
    IN  /\ cycle_count < cap
        /\ last_thinking_cycle' = now
        /\ cycle_count' = cycle_count + 1
        /\ seen_contexts' = r.seen
        /\ last_significant_time' = r.last_sig
        /\ stats' = [stats EXCEPT !.significant_count = @ + Len(r.significant)]
        /\ buffer' = r.buffer
        /\ context_hashes' = r.context_hashes
        /\ hash_timestamps' = r.hash_timestamps
        /\ cycle_result' = r.significant
        /\ ret' = "result"
        /\ last_op' = "run_thinking_cycle"
        /\ UNCHANGED outer_vars
        /\ UNCHANGED <<score_ret, score_args>>
        /\ UNCHANGED capture_tasks
        /\ UNCHANGED <<now, state, last_activity_time, activity_history,
                       last_notification_time, saved_thoughts, gemini_call_count,
                       reaction_queue, transition_log>>
        /\ UNCHANGED loop_vars

(***************************************************************************)
(* ThinkingEngine.update_state.                                            *)
(***************************************************************************)
\* the state update_state assigns, from the readings it takes
NextStateSticky(previous, idle, idle_duration, buffer_len, cycle_due) ==
    IF idle /\ idle_duration > resting_after THEN "resting"
    ELSE IF idle THEN "deep"
    ELSE IF previous \in {"deep", "resting"} THEN "active"
    ELSE IF buffer_len > 0 /\ cycle_due THEN "thinking"
    ELSE "active"

NextStateBufferFirst(previous, idle, idle_duration, buffer_len, cycle_due) ==
    IF buffer_len > 0 /\ cycle_due THEN "thinking"
    ELSE IF idle /\ idle_duration > resting_after THEN "resting"
    ELSE IF idle THEN "deep"
    ELSE "active"

\* update_state that leaves RESTING only for ACTIVE or THINKING
NextStateRestingHolds(previous, idle, idle_duration, buffer_len, cycle_due) ==
    IF idle
    THEN IF idle_duration > resting_after \/ previous = "resting"
         THEN "resting" ELSE "deep"
    ELSE IF buffer_len > 0 /\ cycle_due THEN "thinking"
    ELSE "active"

\* update_state without its RESTING branch
NextStateNoResting(previous, idle, idle_duration, buffer_len, cycle_due) ==
    IF idle THEN "deep"
    ELSE IF buffer_len > 0 /\ cycle_due THEN "thinking"
    ELSE "active"

NextState(previous, idle, idle_duration, buffer_len, cycle_due) ==
    IF idle
    THEN IF idle_duration > resting_after THEN "resting" ELSE "deep"
    ELSE IF buffer_len > 0 /\ cycle_due THEN "thinking"
    ELSE "active"

\* the transition logged when the state changed, <<>> when nothing is logged
TransitionAlways(previous, new) == <<previous, new>>

Transition(previous, new) == IF new # previous THEN <<previous, new>> ELSE <<>>

UpdateStateEffect ==
    LET new == NextState(state, is_idle, get_idle_duration, Len(buffer),
                         should_run_thinking_cycle)
    IN  [state |-> new, transition_log |-> Transition(state, new)]

\* update_state counting as activity of the user
UpdateStateRecordsActivity ==
    /\ state' = UpdateStateEffect.state
    /\ transition_log' = UpdateStateEffect.transition_log
    /\ ret' = UpdateStateEffect.state
    /\ last_op' = "update_state"
    /\ last_activity_time' = now
    /\ UNCHANGED outer_vars
    /\ UNCHANGED <<score_ret, score_args>>
    /\ UNCHANGED capture_tasks
    /\ UNCHANGED <<now, buffer, context_hashes, hash_timestamps,
                   activity_history, seen_contexts, last_significant_time,
                   last_thinking_cycle, last_notification_time, saved_thoughts,
                   cycle_count, gemini_call_count, stats, reaction_queue, cycle_result>>
    /\ UNCHANGED loop_vars

\* ThinkingEngine.update_state, called on its own
UpdateState ==
    /\ state' = UpdateStateEffect.state
    /\ transition_log' = UpdateStateEffect.transition_log
    /\ ret' = UpdateStateEffect.state
    /\ last_op' = "update_state"
    /\ UNCHANGED outer_vars
    /\ UNCHANGED <<score_ret, score_args>>
    /\ UNCHANGED capture_tasks
    /\ UNCHANGED <<now, buffer, context_hashes, hash_timestamps, last_activity_time,
                   activity_history, seen_contexts, last_significant_time,
                   last_thinking_cycle, last_notification_time, saved_thoughts,
                   cycle_count, gemini_call_count, stats, reaction_queue, cycle_result>>
    /\ UNCHANGED loop_vars

(***************************************************************************)
(* The poll loop (main.thinking_cycle_loop) and the escalation             *)
(* (main.process_significant_observation).  The loop is one task: it is    *)
(* suspended in asyncio.sleep or in the await of the analysis call, and    *)
(* the code between two awaits runs as one step.                           *)
(***************************************************************************)
\* ThinkingEngine.should_consult_gemini: the answer
should_consult_gemini(obs) == FracGE(obs.significance_score, gemini_threshold)

\* ThinkingEngine.save_thought_for_later at time t: the new list
SaveThoughtDrop(saved, content, reason, context, t) == saved

SaveThoughtNoCap(saved, content, reason, context, t) ==
    Append(saved, [content |-> content, reason |-> reason,
                   timestamp |-> t, context |-> context])

SaveThought(saved, content, reason, context, t) ==
    LET s == Append(saved, [content |-> content, reason |-> reason,
                            timestamp |-> t, context |-> context])
    IN  IF Len(s) > saved_thoughts_cap
        THEN SubSeq(s, Len(s) - saved_thoughts_cap + 1, Len(s))
        ELSE s

\* the for loop without its test of obs.image_bytes
RECURSIVE ForLoopScanNoImageTest(_)
ForLoopScanNoImageTest(todo) ==
    IF todo = <<>> THEN [filtered |-> 0, saves |-> <<>>, obs |-> <<>>, rest |-> <<>>]
    ELSE LET o == Head(todo)
             r == ForLoopScanNoImageTest(Tail(todo))
         IN  IF should_consult_gemini(o)
             THEN [filtered |-> 0, saves |-> <<>>, obs |-> <<o>>, rest |-> Tail(todo)]
             ELSE [r EXCEPT !.filtered = @ + 1,
                            !.saves = IF o.description # "None"
                                      THEN <<o>> \o @ ELSE @]

\* the for loop of thinking_cycle_loop over the observations still to visit,
\* up to its next await: the edge_filtered increments, the thoughts saved for
\* observations below the analysis threshold that carry a description, the
\* observation handed to process_significant_observation (<<>> when the loop
\* ends) and the observations left
RECURSIVE ForLoopScan(_)
ForLoopScan(todo) ==
    IF todo = <<>> THEN [filtered |-> 0, saves |-> <<>>, obs |-> <<>>, rest |-> <<>>]
    ELSE LET o == Head(todo)
             r == ForLoopScan(Tail(todo))
         IN  IF ~o.image_bytes THEN r
             ELSE IF should_consult_gemini(o)
             THEN [filtered |-> 0, saves |-> <<>>, obs |-> <<o>>, rest |-> Tail(todo)]
             ELSE [r EXCEPT !.filtered = @ + 1,
                            !.saves = IF o.description # "None"
                                      THEN <<o>> \o @ ELSE @]

RECURSIVE SaveBelowThreshold(_, _, _)
SaveBelowThreshold(saved, saves, t) ==
    IF saves = <<>> THEN saved
    ELSE SaveBelowThreshold(
             SaveThought(saved, Head(saves).description, "Below Gemini threshold",
                         Head(saves).window_title, t),
             Tail(saves), t)

\* the loop goes on from the for loop: into the next analysis call, or, the
\* for loop done, through run_deep_thinking (which writes nothing of the
\* engine) into asyncio.sleep(5)
LoopContinue(todo, stats0, saved0) ==
    LET r == ForLoopScan(todo)
        stats1 == [stats0 EXCEPT !.edge_filtered = @ + r.filtered,
                                 !.thoughts_saved = @ + Len(r.saves)]
        saved1 == SaveBelowThreshold(saved0, r.saves, now)
    IN  IF r.obs # <<>>
        THEN /\ gemini_call_count' = gemini_call_count + 1
             /\ stats' = Bump(stats1, "gemini_consulted")
             /\ saved_thoughts' = saved1
             /\ loop_obs' = r.obs
             /\ loop_todo' = r.rest
             /\ loop_pc' = "analysis"
             /\ UNCHANGED sleep_until
        ELSE /\ UNCHANGED gemini_call_count
             /\ stats' = stats1
             /\ saved_thoughts' = saved1
             /\ loop_obs' = <<>>
             /\ loop_todo' = <<>>
             /\ loop_pc' = "sleep"
             /\ sleep_until' = now + poll_delay

\* one iteration of thinking_cycle_loop, from the end of its sleep to its
\* next await
LoopIterate(cap) ==
    LET u == UpdateStateEffect
        r == ThinkingCycle
    IN  /\ loop_pc = "sleep"
        /\ now >= sleep_until
        /\ last_op' = "loop_iterate"
        /\ UNCHANGED outer_vars
        /\ UNCHANGED <<score_ret, score_args>>
        /\ UNCHANGED capture_tasks
        /\ ret' = u.state
        /\ state' = u.state
        /\ transition_log' = u.transition_log
        /\ loop_state' = u.state
        /\ IF should_run_thinking_cycle
           THEN /\ cycle_count < cap
                /\ last_thinking_cycle' = now
                /\ cycle_count' = cycle_count + 1
                /\ seen_contexts' = r.seen
                /\ last_significant_time' = r.last_sig
                /\ buffer' = r.buffer
                /\ context_hashes' = r.context_hashes
                /\ hash_timestamps' = r.hash_timestamps
                /\ cycle_result' = r.significant
                /\ LoopContinue(r.significant,
                                [stats EXCEPT !.significant_count = @ + Len(r.significant)],
                                saved_thoughts)
           ELSE /\ UNCHANGED <<last_thinking_cycle, cycle_count, seen_contexts,
                               last_significant_time, buffer, context_hashes,
                               hash_timestamps, cycle_result>>
                /\ LoopContinue(<<>>, stats, saved_thoughts)
        /\ UNCHANGED <<now, last_activity_time, activity_history,
                       last_notification_time, reaction_queue>>

\* the recommendation texts that count as no content
TextNull == <<"n", "u", "l", "l">>
TextNone == <<"n", "o", "n", "e">>

\* `not rec_content or rec_content.lower() in ["null", "none", ""]`; None and
\* the empty string are both <<>>
NoContent(rec_content) ==
    rec_content = <<>> \/ Lower(rec_content) \in {TextNull, TextNone, <<>>}

\* the decision matrix of process_significant_observation: the reason for
\* withholding, "" when should_speak is True.  The reason of the focused
\* case is written without the two decimals of the score that the code
\* formats into it.
WithholdReasonNoCooldown(current_state, can_speak, ai, sc) ==
    IF current_state = "resting" THEN "Rin is resting"
    ELSE IF current_state = "deep" THEN "User is idle, saving for later"
    ELSE IF ai < 3 /\ FracLT(sc, focused_bar) THEN "User focused, score too low"
    ELSE ""

WithholdReasonNoFocus(current_state, can_speak, ai, sc) ==
    IF current_state = "resting" THEN "Rin is resting"
    ELSE IF current_state = "deep" THEN "User is idle, saving for later"
    ELSE IF ~can_speak THEN "Cooldown active"
    ELSE ""

WithholdReasonCooldownFirst(current_state, can_speak, ai, sc) ==
    IF ~can_speak THEN "Cooldown active"
    ELSE IF current_state = "resting" THEN "Rin is resting"
    ELSE IF current_state = "deep" THEN "User is idle, saving for later"
    ELSE IF ai < 3 /\ FracLT(sc, focused_bar) THEN "User focused, score too low"
    ELSE ""

WithholdReason(current_state, can_speak, ai, sc) ==
    IF current_state = "resting" THEN "Rin is resting"
    ELSE IF current_state = "deep" THEN "User is idle, saving for later"
    ELSE IF ~can_speak THEN "Cooldown active"
    ELSE IF ai < 3 /\ FracLT(sc, focused_bar) THEN "User focused, score too low"
    ELSE ""

\* knowledge_engine.process_observation_with_gemini passes on the
\* "recommendation" of mind.analyze_for_learning when it is truthy; the mind
\* of ollama_llm.py returns the model's text under that key, the mind of
\* llm.py returns no such key, and then rec_content is always None (<<>>).
\* The recommendation is an input here.
\* the analysis call returns rec_content as its recommendation:
\* process_significant_observation from its await to its end, and the loop
\* on to its next await
AnalysisReturn(rec_content) ==
    LET obs == loop_obs[1]
        reason == WithholdReason(state, can_notify, get_activity_intensity,
                                 obs.significance_score)
    IN  /\ loop_pc = "analysis"
        /\ last_op' = "analysis_return"
        /\ UNCHANGED outer_vars
        /\ UNCHANGED <<score_ret, score_args>>
        /\ UNCHANGED capture_tasks
        /\ IF NoContent(rec_content)
           THEN /\ ret' = "no content"
                /\ UNCHANGED <<last_notification_time, reaction_queue>>
                /\ LoopContinue(loop_todo, stats, saved_thoughts)
           ELSE IF reason = ""
           THEN /\ ret' = "speak"
                /\ last_notification_time' = now
                /\ reaction_queue' = Append(reaction_queue,
                                            [type |-> "recommendation",
                                             description |-> rec_content])
                /\ LoopContinue(loop_todo, Bump(stats, "notifications_sent"),
                                saved_thoughts)
           ELSE /\ ret' = "withhold"
                /\ UNCHANGED <<last_notification_time, reaction_queue>>
                /\ LoopContinue(loop_todo, Bump(stats, "thoughts_saved"),
                                SaveThought(saved_thoughts, rec_content, reason,
                                            obs.window_title, now))
        /\ UNCHANGED <<now, state, buffer, context_hashes, hash_timestamps,
                       last_activity_time, activity_history, seen_contexts,
                       last_significant_time, last_thinking_cycle, cycle_count,
                       transition_log, cycle_result, loop_state>>

\* the analysis call raises and the exception reaches the except of the loop
AnalysisRaiseAbortsCycle ==
    /\ loop_pc = "analysis"
    /\ last_op' = "analysis_raise"
    /\ UNCHANGED outer_vars
    /\ UNCHANGED <<score_ret, score_args>>
    /\ UNCHANGED capture_tasks
    /\ ret' = "None"
    /\ LoopContinue(<<>>, stats, saved_thoughts)
    /\ UNCHANGED <<now, state, buffer, context_hashes, hash_timestamps,
                   last_activity_time, activity_history, seen_contexts,
                   last_significant_time, last_thinking_cycle, cycle_count,
                   transition_log, cycle_result, loop_state,
                   last_notification_time, reaction_queue>>

\* the analysis call raises, and the buffer is cleared after the escalation
AnalysisRaiseClears ==
    /\ loop_pc = "analysis"
    /\ last_op' = "analysis_raise"
    /\ UNCHANGED outer_vars
    /\ UNCHANGED <<score_ret, score_args>>
    /\ UNCHANGED capture_tasks
    /\ ret' = "None"
    /\ buffer' = <<>>
    /\ LoopContinue(loop_todo, stats, saved_thoughts)
    /\ UNCHANGED <<now, state, context_hashes, hash_timestamps,
                   last_activity_time, activity_history, seen_contexts,
                   last_significant_time, last_thinking_cycle, cycle_count,
                   transition_log, cycle_result, loop_state,
                   last_notification_time, reaction_queue>>

\* the analysis call raises: the except of process_significant_observation
\* prints, and the loop goes on to its next await
AnalysisRaise ==
    /\ loop_pc = "analysis"
    /\ last_op' = "analysis_raise"
    /\ UNCHANGED outer_vars
    /\ UNCHANGED <<score_ret, score_args>>
    /\ UNCHANGED capture_tasks
    /\ ret' = "None"
    /\ LoopContinue(loop_todo, stats, saved_thoughts)
    /\ UNCHANGED <<now, state, buffer, context_hashes, hash_timestamps,
                   last_activity_time, activity_history, seen_contexts,
                   last_significant_time, last_thinking_cycle, cycle_count,
                   transition_log, cycle_result, loop_state,
                   last_notification_time, reaction_queue>>

\* ObservationBuffer.clear, called on its own
Clear ==
    /\ buffer' = BufferClear.buffer
    /\ context_hashes' = BufferClear.context_hashes
    /\ hash_timestamps' = BufferClear.hash_timestamps
    /\ last_op' = "clear"
    /\ UNCHANGED outer_vars
    /\ UNCHANGED <<score_ret, score_args>>
    /\ UNCHANGED capture_tasks
    /\ ret' = "None"
    /\ UNCHANGED <<now, state, last_activity_time, activity_history, seen_contexts,
                   last_significant_time, last_thinking_cycle, last_notification_time,
                   saved_thoughts, cycle_count, gemini_call_count, stats,
                   reaction_queue, transition_log, cycle_result>>
    /\ UNCHANGED loop_vars

\* the clock advances to a later instant t (seconds after EpochStart)
Tick(t) ==
    /\ EpochStart + t > now
    /\ now' = EpochStart + t
    /\ last_op' = "tick"
    /\ UNCHANGED outer_vars
    /\ UNCHANGED <<score_ret, score_args>>
    /\ UNCHANGED capture_tasks
    /\ ret' = "None"
    /\ UNCHANGED engine_vars
    /\ UNCHANGED loop_vars

(***************************************************************************)
(* The state after construction (ThinkingEngine.__init__ and main's        *)
(* module state).                                                          *)
(***************************************************************************)
Init ==
    /\ now = EpochStart
    /\ state = "active"
    /\ buffer = <<>>
    /\ context_hashes = {}
    /\ hash_timestamps = <<>>
    /\ last_activity_time = EpochStart
    /\ activity_history = <<>>
    /\ seen_contexts = <<>>
    /\ last_significant_time = 0
    /\ last_thinking_cycle = 0
    /\ last_notification_time = 0
    /\ saved_thoughts = <<>>
    /\ cycle_count = 0
    /\ gemini_call_count = 0
    /\ stats = [observations_total |-> 0, observations_buffered |-> 0,
                observations_deduplicated |-> 0, significant_count |-> 0,
                gemini_consulted |-> 0, edge_filtered |-> 0,
                thoughts_saved |-> 0, notifications_sent |-> 0]
    /\ reaction_queue = <<>>
    /\ transition_log = <<>>
    /\ cycle_result = <<>>
    /\ loop_pc = "sleep"
    /\ loop_state = "active"
    /\ loop_todo = <<>>
    /\ loop_obs = <<>>
    /\ sleep_until = EpochStart + initial_delay
    /\ capture_tasks = <<>>
    /\ score_ret = <<0, 1>>
    /\ score_args = <<>>
    /\ pending_thoughts = <<>>
    /\ staging_kb = <<>>
    /\ pending_episodes = <<>>
    /\ chat_response = <<>>
    /\ last_op = "init"
    /\ ret = "None"

(***************************************************************************)
(* SpecBuf: the engine driven through buffer_observation, clear and        *)
(* run_thinking_cycle.  Its environment offers two spellings of one        *)
(* context and another context.                                            *)
(***************************************************************************)
\* <<app_name, window_title>>
ContextsBuf == {<<(<<"c">>), (<<"m">>)>>, <<(<<"C">>), (<<"M">>)>>, <<(<<"c">>), (<<"n">>)>>}
\* the instants at which something may happen, in seconds after EpochStart
InstantsBuf == {1, 2, 30, 33}

BufObserve == \E c \in ContextsBuf :
                  BufferObservation(c[2], c[1], "development", TRUE, MaxObsBuf)

NextBuf ==
    \/ \E t \in InstantsBuf : Tick(t)
    \/ BufObserve
    \/ RunThinkingCycle(MaxCyclesBuf)

SpecBuf == Init /\ [][NextBuf]_vars

\* an observation with hash h was accepted at most recent_hash_ttl seconds ago:
\* it is still in the buffer, or the recency set holds its time of acceptance
AcceptedWithinTTL(h) ==
    \/ \E i \in 1..Len(buffer) :
          /\ buffer[i].context_hash = h
          /\ now - buffer[i].timestamp <= recent_hash_ttl
    \/ h \in context_hashes /\ now - hash_timestamps[h] <= recent_hash_ttl

\* C1 (dedup): an observation whose (app, title) equals, letter case aside,
\* that of an observation accepted at most 30 s before is rejected:
\* buffer_observation returns False and the buffer does not grow.
C1_Dedup ==
    [][\A c \in ContextsBuf :
          (/\ BufferObservation(c[2], c[1], "development", TRUE, MaxObsBuf)
           /\ \E d \in ContextsBuf :
                 /\ Lower(d[1]) = Lower(c[1]) /\ Lower(d[2]) = Lower(c[2])
                 /\ AcceptedWithinTTL(hash_context(d[2], d[1])))
          => (ret' = "False" /\ Len(buffer') = Len(buffer))]_vars

\* a duplicate in another spelling is rejected exactly 30 s after the first
C1_Witness ==
    /\ last_op = "buffer_observation"
    /\ ret = "False"
    /\ Len(buffer) = 1
    /\ now - buffer[1].timestamp = recent_hash_ttl
    /\ activity_history[Len(activity_history)].window # buffer[1].window_title
    /\ Lower(activity_history[Len(activity_history)].window) = Lower(buffer[1].window_title)

\* the times of the buffer_observation calls so far
CallTimes == [i \in 1..Len(activity_history) |-> activity_history[i].timestamp]

\* three submissions of one context one second apart, the first accepted
\* and the other two rejected, and nothing drained
AfterThreeDuplicates(h) ==
    /\ Len(activity_history) = 3
    /\ CallTimes[2] = CallTimes[1] + 1
    /\ CallTimes[3] = CallTimes[2] + 1
    /\ stats.observations_buffered = 1
    /\ stats.observations_deduplicated = 2
    /\ Len(buffer) = 1
    /\ buffer[1].context_hash = h
    /\ buffer[1].timestamp = CallTimes[1]

\* C4 (TTL re-admission): after three observations of one context 1 s apart
\* (first accepted, the others rejected, buffer length 1) a fourth one more
\* than 30 s after the third is accepted, and the buffer then holds 2 entries.
C4_Readmission ==
    [][\A c \in ContextsBuf :
          (/\ AfterThreeDuplicates(hash_context(c[2], c[1]))
           /\ now - CallTimes[3] > recent_hash_ttl
           /\ BufferObservation(c[2], c[1], "development", TRUE, MaxObsBuf))
          => (ret' = "True" /\ Len(buffer') = 2)]_vars

C4_Witness ==
    /\ last_op = "buffer_observation"
    /\ ret = "True"
    /\ Len(activity_history) = 4
    /\ CallTimes[2] = CallTimes[1] + 1
    /\ CallTimes[3] = CallTimes[2] + 1
    /\ CallTimes[4] = CallTimes[3] + recent_hash_ttl + 1
    /\ Len(buffer) = 2
    /\ buffer[1].context_hash = buffer[2].context_hash
    /\ stats.observations_deduplicated = 2

(***************************************************************************)
(* SpecClear: observations, clear called on its own and thinking cycles,   *)
(* at the instants around the end of the TTL.                              *)
(***************************************************************************)
InstantsClear == {29, 30, 31}

ClearObserve == \E c \in ContextsBuf :
                    BufferObservation(c[2], c[1], "development", TRUE, MaxObsClear)

NextClear ==
    \/ \E t \in InstantsClear : Tick(t)
    \/ ClearObserve
    \/ Clear
    \/ RunThinkingCycle(MaxCyclesClear)

SpecClear == Init /\ [][NextClear]_vars

\* C5 (clear keeps the recency set): clear, and so the end of
\* run_thinking_cycle, empties the buffer and leaves the recency set and its
\* timestamps as they were, so an observation whose hash was accepted less
\* than 30 s before is rejected while the buffer is drained.
C5_ClearKeepsRecency ==
    [][/\ (Clear \/ RunThinkingCycle(MaxCyclesClear))
          => (/\ buffer' = <<>>
              /\ context_hashes' = context_hashes
              /\ hash_timestamps' = hash_timestamps)
       /\ \A c \in ContextsBuf :
          (/\ buffer = <<>>
           /\ hash_context(c[2], c[1]) \in context_hashes
           /\ now - hash_timestamps[hash_context(c[2], c[1])] < recent_hash_ttl
           /\ BufferObservation(c[2], c[1], "development", TRUE, MaxObsClear))
          => (ret' = "False" /\ buffer' = <<>>)]_vars

\* an observation is rejected 29 s after its first copy was accepted, a
\* cycle having drained the buffer in between
C5_Witness ==
    /\ last_op = "buffer_observation"
    /\ ret = "False"
    /\ buffer = <<>>
    /\ cycle_count = 1
    /\ last_thinking_cycle >= CallTimes[1]
    /\ now - CallTimes[1] = recent_hash_ttl - 1
    /\ stats.observations_buffered = 1
    /\ stats.observations_deduplicated = 1

(***************************************************************************)
(* SpecCap: the buffer filled past its capacity.  The user stays on a      *)
(* window or moves on to a new one: the title is the last title or one     *)
(* character longer.                                                       *)
(***************************************************************************)
Window(k) == [i \in 1..k |-> "w"]

LastTitleLen ==
    IF activity_history = <<>> THEN 0
    ELSE Len(activity_history[Len(activity_history)].window)

InstantsCap == {1}

CapObserve == \E k \in {LastTitleLen, LastTitleLen + 1} :
                  BufferObservation(Window(k), <<"c">>, "other", TRUE, MaxObsCap)

NextCap ==
    \/ \E t \in InstantsCap : Tick(t)
    \/ CapObserve
    \/ Clear

SpecCap == Init /\ [][NextCap]_vars

\* C2 (capacity): the buffer never holds more than 10 observations; an
\* accepted add into a buffer of 10 drops exactly the oldest entry, keeps the
\* other 9 in order and puts the new observation last, returning True.
C2_Capacity ==
    /\ [](Len(buffer) <= max_size)
    /\ [][\A k \in {LastTitleLen, LastTitleLen + 1} :
             (/\ Len(buffer) = max_size
              /\ BufferObservation(Window(k), <<"c">>, "other", TRUE, MaxObsCap)
              /\ ret' = "True")
             => (/\ Len(buffer') = max_size
                 /\ \A i \in 1..(max_size - 1) : buffer'[i] = buffer[i + 1]
                 /\ buffer'[max_size].window_title = Window(k)
                 /\ buffer'[max_size].timestamp = now
                 /\ \A i \in 1..(max_size - 1) : buffer'[i] # buffer[1])]_vars

\* an eleventh observation has been accepted into a full buffer
C2_Witness ==
    /\ last_op = "buffer_observation"
    /\ ret = "True"
    /\ Len(buffer) = max_size
    /\ stats.observations_buffered > max_size
    /\ buffer[1].window_title = Window(stats.observations_buffered - max_size)
(***************************************************************************)
(* SpecState: the state machine driven through update_state, with          *)
(* observations and thinking cycles in between, at the instants around     *)
(* the cycle interval and the two idle thresholds.                         *)
(***************************************************************************)
ContextsState == {<<(<<"c">>), (<<"m">>)>>}
InstantsState == {9, 10, 120, 121, 300, 301}

StateObserve == \E c \in ContextsState :
                    BufferObservation(c[2], c[1], "work", TRUE, MaxObsState)

NextStateMachine ==
    \/ \E t \in InstantsState : Tick(t)
    \/ StateObserve
    \/ RunThinkingCycle(MaxCyclesState)
    \/ UpdateState

SpecState == Init /\ [][NextStateMachine]_vars

\* the readings of update_state
IdleSeconds == now - last_activity_time

SinceLastCycle == now - last_thinking_cycle

\* C6 (idle priority): when more than 120 s have passed since the last
\* activity, update_state sets DEEP_REFLECTION if the idle duration is at
\* most 300 s and RESTING if it is more, whatever the previous state, the
\* buffer and the time since the last cycle.
C6_IdlePriority ==
    [][(UpdateState /\ IdleSeconds > idle_threshold)
       => (state' = IF IdleSeconds <= resting_after THEN "deep" ELSE "resting")]_vars

\* idle wins over a non-empty buffer whose cycle is due, out of THINKING
C6_Witness ==
    /\ last_op = "update_state"
    /\ transition_log = <<"thinking", "deep">>
    /\ Len(buffer) > 0
    /\ SinceLastCycle >= thinking_cycle_interval
    /\ IdleSeconds = idle_threshold + 1

\* C7 (ACTIVE to THINKING): from ACTIVE, update_state moves to THINKING if and
\* only if the user is not idle, the buffer is non-empty and at least 10 s
\* have passed since the last cycle; otherwise, when not idle, it stays ACTIVE.
C7_ActiveToThinking ==
    [][(UpdateState /\ state = "active")
       => (/\ state' = "thinking" <=>
                 (/\ ~(IdleSeconds > idle_threshold)
                  /\ Len(buffer) > 0
                  /\ SinceLastCycle >= thinking_cycle_interval)
           /\ (~(IdleSeconds > idle_threshold) /\ state' # "thinking")
                 => state' = "active")]_vars

\* the move happens exactly 10 s after the last cycle
C7_Witness ==
    /\ last_op = "update_state"
    /\ transition_log = <<"active", "thinking">>
    /\ SinceLastCycle = thinking_cycle_interval

\* the state the transition table gives for the readings
StateOfReadings(idle_seconds, occupancy, since_cycle) ==
    IF idle_seconds > idle_threshold
    THEN IF idle_seconds <= resting_after THEN "deep" ELSE "resting"
    ELSE IF occupancy > 0 /\ since_cycle >= thinking_cycle_interval THEN "thinking"
    ELSE "active"

\* C9 (idempotence): update_state called again with unchanged readings
\* returns the same state and logs nothing; a call logs a transition exactly
\* when it changes the state; the state it sets is a function of the readings
\* (idle duration, buffer occupancy, time since the last cycle) alone.
C9_Idempotence ==
    [][UpdateState
       => (/\ last_op = "update_state"
                 => (state' = state /\ ret' = ret /\ transition_log' = <<>>)
           /\ (transition_log' # <<>>) <=> (state' # state)
           /\ transition_log' # <<>> => transition_log' = <<state, state'>>
           /\ ret' = state'
           /\ state' = StateOfReadings(IdleSeconds, Len(buffer), SinceLastCycle))]_vars

\* a call that found THINKING and left it: the state is THINKING and the call
\* logged no transition, after a cycle has run and an observation come in
C9_Witness ==
    /\ last_op = "update_state"
    /\ state = "thinking"
    /\ transition_log = <<>>
    /\ stats.observations_total > 0
    /\ cycle_count > 0

(***************************************************************************)
(* SpecLoop: the program.  The capture path hands observations to          *)
(* buffer_observation while the poll loop runs its iterations and the      *)
(* analysis calls return or raise.                                         *)
(***************************************************************************)
\* <<app_name, window_title, app_category>>
ContextsLoop == {<<(<<"c">>), (<<"m">>), "development">>, <<(<<"c">>), (<<"n">>), "other">>}
InstantsLoop == {10, 20, 25, 140, 145, 150}
\* recommendations: none, the word null in capitals, a sentence
RecsLoop == {<<>>, <<"N", "U", "L", "L">>, <<"h", "i">>}

\* the capture path waits while an analysis call is out
LoopObserveBlocked ==
    /\ loop_pc # "analysis"
    /\ \E c \in ContextsLoop :
          BufferObservation(c[2], c[1], c[3], TRUE, MaxObsLoop)

LoopObserve == \E c \in ContextsLoop :
                   BufferObservation(c[2], c[1], c[3], TRUE, MaxObsLoop)

NextLoop ==
    \/ \E t \in InstantsLoop : Tick(t)
    \/ LoopObserve
    \/ LoopIterate(MaxCyclesLoop)
    \/ \E rec \in RecsLoop : AnalysisReturn(rec)
    \/ AnalysisRaise

SpecLoop == Init /\ [][NextLoop]_vars
\* C3: a step that marks a notification sent (notifications_sent moves, or
\* the cooldown clock moves) is taken only when at least the cooldown
\* interval of 15 s has passed since the clock's reading, which is the moment
\* of the previous mark; the step counts one notification and sets the clock
\* to the current time.
C3_Cooldown ==
    [][(\/ stats'.notifications_sent # stats.notifications_sent
        \/ last_notification_time' # last_notification_time)
       => (/\ now - last_notification_time >= 15
           /\ last_notification_time' = now
           /\ now' = now
           /\ stats'.notifications_sent = stats.notifications_sent + 1)]_vars

\* two notifications marked, the second exactly 15 s after the first
C3_Witness ==
    /\ stats.notifications_sent = 2
    /\ Len(reaction_queue) = 2
    /\ last_op = "analysis_return"
    /\ ret = "speak"
    /\ last_notification_time = EpochStart + 25
    /\ now = EpochStart + 25

\* the idle condition has cleared: activity was recorded within the last
\* 120 s
IdleCleared == now - last_activity_time <= 120

\* C8 as stated: from DEEP_REFLECTION or RESTING, with the idle condition
\* cleared by new activity, the next update of the state sets ACTIVE.
C8_Original ==
    [][(/\ LoopIterate(MaxCyclesLoop)
        /\ state \in {"deep", "resting"}
        /\ IdleCleared)
       => state' = "active"]_vars

\* C8: from DEEP_REFLECTION or RESTING, with the idle condition cleared by
\* new activity, the next update of the state sets ACTIVE, unless the buffer
\* holds an observation and at least 10 s have passed since the last
\* thinking cycle, and then it sets THINKING.
C8_IdleCleared ==
    [][(/\ LoopIterate(MaxCyclesLoop)
        /\ state \in {"deep", "resting"}
        /\ IdleCleared)
       => state' = IF buffer # <<>> /\ now - last_thinking_cycle >= 10
                   THEN "thinking" ELSE "active"]_vars

\* the poll loop has just moved the state from DEEP_REFLECTION to THINKING
C8_Witness ==
    /\ last_op = "loop_iterate"
    /\ state = "thinking"
    /\ transition_log = <<"deep", "thinking">>

\* the conditions of speaking at the moment of the decision
MaySpeak ==
    /\ state \notin {"resting", "deep"}
    /\ now - last_notification_time >= 15
    /\ ~(/\ get_activity_intensity < 3
         /\ FracLT(loop_obs[1].significance_score, <<3, 5>>))

\* the step speaks rec: one entry more in the queue of notifications, the
\* cooldown clock set, no thought saved
Spoken(rec) ==
    /\ reaction_queue' = Append(reaction_queue,
                                [type |-> "recommendation", description |-> rec])
    /\ last_notification_time' = now
    /\ saved_thoughts' = saved_thoughts

\* the step withholds rec: one saved thought more, which carries rec, the
\* queue of notifications and the cooldown clock as they were
Withheld(rec) ==
    /\ reaction_queue' = reaction_queue
    /\ last_notification_time' = last_notification_time
    /\ Len(saved_thoughts') = Len(saved_thoughts) + 1
    /\ saved_thoughts'[Len(saved_thoughts')].content = rec

\* C10 as stated: every non-empty recommendation the analysis returns is
\* spoken if and only if the conditions of speaking hold, and is withheld
\* in every other case.
C10_Original ==
    [][\A rec \in RecsLoop :
          (AnalysisReturn(rec) /\ rec # <<>>)
          => (/\ MaySpeak <=> Spoken(rec)
              /\ ~MaySpeak <=> Withheld(rec))]_vars

\* C10: every recommendation the analysis returns that is non-empty and is
\* not the word null or none in any letter case is spoken if and only if the
\* state is neither RESTING nor DEEP_REFLECTION, the cooldown of 15 s has
\* elapsed, and it is not the case that the activity intensity is below 0.3
\* while the significance score is below 0.6; in every other case it is
\* withheld.
C10_SpeakIff ==
    [][\A rec \in RecsLoop :
          (/\ AnalysisReturn(rec)
           /\ rec # <<>>
           /\ Lower(rec) \notin {TextNull, TextNone})
          => (/\ MaySpeak <=> Spoken(rec)
              /\ ~MaySpeak <=> Withheld(rec))]_vars

\* one recommendation spoken, and the next one withheld for the cooldown
C10_Witness ==
    /\ Len(reaction_queue) = 1
    /\ Len(saved_thoughts) = 1
    /\ saved_thoughts[1].reason = "Cooldown active"
    /\ last_op = "analysis_return"
    /\ ret = "withhold"

(***************************************************************************)
(* SpecIdle: the program with two windows of one work application, the     *)
(* user going idle while observations wait in the buffer or an analysis    *)
(* call is out.                                                            *)
(***************************************************************************)
\* <<app_name, window_title, app_category>>
ContextsIdle == {<<(<<"c">>), (<<"m">>), "work">>, <<(<<"c">>), (<<"n">>), "work">>}
InstantsIdle == {10, 140, 145, 150, 310}
RecsIdle == {<<>>, <<"h", "i">>}

IdleObserve == \E c \in ContextsIdle :
                   BufferObservation(c[2], c[1], c[3], TRUE, MaxObsIdle)

NextIdle ==
    \/ \E t \in InstantsIdle : Tick(t)
    \/ IdleObserve
    \/ LoopIterate(MaxCyclesIdle)
    \/ \E rec \in RecsIdle : AnalysisReturn(rec)
    \/ AnalysisRaise

SpecIdle == Init /\ [][NextIdle]_vars

\* the reason of the first withhold condition that applies, in the order
\* RESTING, DEEP_REFLECTION, cooldown, focus; "" when none applies
FirstApplicable ==
    CASE state = "resting" -> "Rin is resting"
      [] state = "deep" -> "User is idle, saving for later"
      [] now - last_notification_time < 15 -> "Cooldown active"
      [] /\ get_activity_intensity < 3
         /\ FracLT(loop_obs[1].significance_score, <<3, 5>>)
         -> "User focused, score too low"
      [] OTHER -> ""

\* C11: every observation in significant_observations has a score of at
\* least 0.4, and each of them is escalated to analysis in its turn (0.55 is
\* such a score); when a recommendation comes back and a withhold condition
\* applies, a thought is saved whose reason is that of the first applicable
\* condition in the order RESTING, DEEP_REFLECTION, cooldown, focus, so in
\* DEEP_REFLECTION the reason is "User is idle, saving for later" even when
\* the cooldown is active too.
C11_WithholdReason ==
    [][/\ \A i \in DOMAIN cycle_result' :
             FracGE(cycle_result'[i].significance_score, <<2, 5>>)
       /\ (LoopIterate(MaxCyclesIdle) /\ cycle_result' # <<>> /\ cycle_count' # cycle_count)
          => (/\ loop_pc' = "analysis"
              /\ loop_obs' = <<cycle_result'[1]>>
              /\ loop_todo' = Tail(cycle_result'))
       /\ ((AnalysisRaise \/ \E rec \in RecsIdle : AnalysisReturn(rec)) /\ loop_todo # <<>>)
          => (/\ loop_pc' = "analysis"
              /\ loop_obs' = <<Head(loop_todo)>>
              /\ loop_todo' = Tail(loop_todo))
       /\ \A rec \in RecsIdle :
             (AnalysisReturn(rec) /\ rec # <<>> /\ FirstApplicable # "")
             => saved_thoughts' =
                  Append(saved_thoughts,
                         [content |-> rec, reason |-> FirstApplicable,
                          timestamp |-> now, context |-> loop_obs[1].window_title])]_vars

\* an observation scored 0.55 was significant, and its recommendation has
\* just been saved with the idle reason
C11_Witness ==
    /\ state = "deep"
    /\ last_op = "analysis_return"
    /\ ret = "withhold"
    /\ Len(cycle_result) = 2
    /\ cycle_result[2].significance_score = <<220, 400>>
    /\ Len(saved_thoughts) = 2
    /\ saved_thoughts[2].reason = "User is idle, saving for later"
    /\ saved_thoughts[2].context = cycle_result[2].window_title

\* outcome (a): one entry more in the queue of notifications, the cooldown
\* clock reset, notifications_sent one more, and no thought saved
OutcomeSpeak(rec) ==
    /\ reaction_queue' = Append(reaction_queue,
                                [type |-> "recommendation", description |-> rec])
    /\ last_notification_time' = now
    /\ stats'.notifications_sent = stats.notifications_sent + 1
    /\ saved_thoughts' = saved_thoughts
    /\ stats'.thoughts_saved = stats.thoughts_saved

\* outcome (b): one saved thought more, with the computed reason, and the
\* queue of notifications, the cooldown clock and notifications_sent as
\* they were
OutcomeWithhold(rec) ==
    /\ FirstApplicable # ""
    /\ saved_thoughts' = Append(saved_thoughts,
                                [content |-> rec, reason |-> FirstApplicable,
                                 timestamp |-> now,
                                 context |-> loop_obs[1].window_title])
    /\ stats'.thoughts_saved = stats.thoughts_saved + 1
    /\ reaction_queue' = reaction_queue
    /\ last_notification_time' = last_notification_time
    /\ stats'.notifications_sent = stats.notifications_sent

\* C12 as stated: every non-empty recommendation has exactly one of the
\* outcomes (a) and (b).
C12_Original ==
    [][\A rec \in RecsLoop :
          (AnalysisReturn(rec) /\ rec # <<>>)
          => (OutcomeSpeak(rec) # OutcomeWithhold(rec))]_vars

\* C12: every recommendation that is non-empty and is not the word null or
\* none in any letter case has exactly one of two outcomes, never both and
\* never neither: (a) speaking, one entry more in the queue of
\* notifications, the cooldown clock reset and notifications_sent one more;
\* or (b) withholding, one saved thought more with the computed reason, the
\* queue and the cooldown clock unchanged.
C12_OneOutcome ==
    [][\A rec \in RecsLoop :
          (/\ AnalysisReturn(rec)
           /\ rec # <<>>
           /\ Lower(rec) \notin {TextNull, TextNone})
          => (OutcomeSpeak(rec) # OutcomeWithhold(rec))]_vars

\* a recommendation has just been spoken, the first outcome of the run
C12_Witness ==
    /\ last_op = "analysis_return"
    /\ ret = "speak"
    /\ Len(reaction_queue) = 1
    /\ stats.notifications_sent = 1
    /\ last_notification_time = now
    /\ saved_thoughts = <<>>

(***************************************************************************)
(* SpecThoughts: the list of saved thoughts driven through                 *)
(* save_thought_for_later, get_saved_thoughts and clear_saved_thoughts.    *)
(***************************************************************************)
\* ThinkingEngine.save_thought_for_later, called on its own
SaveThoughtForLater(content, reason, context, cap) ==
    /\ stats.thoughts_saved < cap
    /\ saved_thoughts' = SaveThought(saved_thoughts, content, reason, context, now)
    /\ stats' = Bump(stats, "thoughts_saved")
    /\ last_op' = "save_thought_for_later"
    /\ UNCHANGED outer_vars
    /\ UNCHANGED <<score_ret, score_args>>
    /\ UNCHANGED capture_tasks
    /\ ret' = "None"
    /\ UNCHANGED <<now, state, buffer, context_hashes, hash_timestamps,
                   last_activity_time, activity_history, seen_contexts,
                   last_significant_time, last_thinking_cycle, last_notification_time,
                   cycle_count, gemini_call_count, reaction_queue, transition_log,
                   cycle_result>>
    /\ UNCHANGED loop_vars

\* ThinkingEngine.get_saved_thoughts: returns a copy of the list
GetSavedThoughts ==
    /\ last_op' = "get_saved_thoughts"
    /\ UNCHANGED outer_vars
    /\ UNCHANGED <<score_ret, score_args>>
    /\ UNCHANGED capture_tasks
    /\ ret' = "copy"
    /\ UNCHANGED <<now>>
    /\ UNCHANGED engine_vars
    /\ UNCHANGED loop_vars

\* ThinkingEngine.clear_saved_thoughts
ClearSavedThoughts ==
    /\ saved_thoughts' = <<>>
    /\ last_op' = "clear_saved_thoughts"
    /\ UNCHANGED outer_vars
    /\ UNCHANGED <<score_ret, score_args>>
    /\ UNCHANGED capture_tasks
    /\ ret' = "None"
    /\ UNCHANGED <<now, state, buffer, context_hashes, hash_timestamps,
                   last_activity_time, activity_history, seen_contexts,
                   last_significant_time, last_thinking_cycle, last_notification_time,
                   cycle_count, gemini_call_count, stats, reaction_queue,
                   transition_log, cycle_result>>
    /\ UNCHANGED loop_vars

ContentsThoughts == {<<"a">>, <<"b">>}
InstantsThoughts == {1}

ThoughtsSave == \E content \in ContentsThoughts :
                    SaveThoughtForLater(content, "Cooldown active", <<"m">>, MaxThoughts)

NextThoughts ==
    \/ \E t \in InstantsThoughts : Tick(t)
    \/ ThoughtsSave
    \/ GetSavedThoughts
    \/ ClearSavedThoughts

SpecThoughts == Init /\ [][NextThoughts]_vars

\* C13: the list of saved thoughts never holds more than 10 entries; a save
\* leaves the most recent 10 of the old entries followed by the new one, in
\* the order of insertion; get_saved_thoughts leaves the list as it is,
\* clear_saved_thoughts empties it, and no other step changes it.
C13_SavedCap ==
    /\ [](Len(saved_thoughts) <= 10)
    /\ [][/\ ThoughtsSave
             => (/\ Len(saved_thoughts') = IF Len(saved_thoughts) < 10
                                           THEN Len(saved_thoughts) + 1 ELSE 10
                 /\ saved_thoughts'[Len(saved_thoughts')].timestamp = now
                 /\ saved_thoughts'[Len(saved_thoughts')].content \in ContentsThoughts
                 /\ \A i \in 1..(Len(saved_thoughts') - 1) :
                       saved_thoughts'[i] =
                         saved_thoughts[Len(saved_thoughts) - (Len(saved_thoughts') - 1) + i])
          /\ GetSavedThoughts => saved_thoughts' = saved_thoughts
          /\ ClearSavedThoughts => saved_thoughts' = <<>>
          /\ ~(ThoughtsSave \/ ClearSavedThoughts) => saved_thoughts' = saved_thoughts]_vars

\* the eleventh thought saved in a row: the list holds 10, its oldest entry
\* gone
C13_Witness ==
    /\ last_op = "save_thought_for_later"
    /\ stats.thoughts_saved = 11
    /\ Len(saved_thoughts) = 10
    /\ saved_thoughts[1].content = <<"b">>
    /\ saved_thoughts[10].content = <<"a">>

\* the elements of a sequence
Range(seq) == {seq[i] : i \in DOMAIN seq}

\* C14: when the analysis call raises, the exception is caught inside
\* process_significant_observation: the step queues no notification, saves
\* no thought and leaves the cooldown clock alone; the failed observation is
\* not tried again (it is neither the next observation escalated nor among
\* those left, nor back in the buffer); the next significant observation of
\* the cycle, if any, is escalated, and otherwise the loop goes to its sleep
\* of 5 s, from which the later cycles run.
C14_AnalysisFailure ==
    [][AnalysisRaise
       => (/\ reaction_queue' = reaction_queue
           /\ saved_thoughts' = saved_thoughts
           /\ last_notification_time' = last_notification_time
           /\ stats'.notifications_sent = stats.notifications_sent
           /\ stats'.thoughts_saved = stats.thoughts_saved
           /\ loop_obs[1] \notin Range(loop_obs') \cup Range(loop_todo') \cup Range(buffer')
           /\ buffer' = buffer
           /\ IF loop_todo # <<>>
              THEN /\ loop_pc' = "analysis"
                   /\ loop_obs' = <<Head(loop_todo)>>
                   /\ loop_todo' = Tail(loop_todo)
                   /\ gemini_call_count' = gemini_call_count + 1
              ELSE /\ loop_pc' = "sleep"
                   /\ sleep_until' = now + 5
                   /\ gemini_call_count' = gemini_call_count)]_vars

\* the first analysis of a cycle has raised and the second significant
\* observation of the same cycle is out for analysis
C14_Witness ==
    /\ last_op = "analysis_raise"
    /\ loop_pc = "analysis"
    /\ Len(cycle_result) = 2
    /\ loop_obs = <<cycle_result[2]>>
    /\ gemini_call_count = 2
    /\ reaction_queue = <<>>
    /\ saved_thoughts = <<>>

\* C15: while the analysis call of a thinking cycle is out, the capture path
\* can run buffer_observation (up to the bound on observations), and when it
\* does the call answers True or False at once: the observation is appended
\* to the buffer or counted as a duplicate, the activity is recorded, and
\* the analysis call is still out afterwards.
C15_CaptureNotBlocked ==
    /\ []((loop_pc = "analysis" /\ stats.observations_total < MaxObsLoop)
          => ENABLED LoopObserve)
    /\ [][(LoopObserve /\ loop_pc = "analysis")
          => (/\ loop_pc' = "analysis"
              /\ loop_obs' = loop_obs
              /\ last_activity_time' = now
              /\ stats'.observations_total = stats.observations_total + 1
              /\ \/ /\ ret' = "True"
                    /\ Len(buffer') = Len(buffer) + 1
                    /\ buffer'[Len(buffer')].timestamp = now
                 \/ /\ ret' = "False"
                    /\ buffer' = buffer
                    /\ stats'.observations_deduplicated
                         = stats.observations_deduplicated + 1)]_vars

\* an observation was accepted while the analysis call of the cycle is out
C15_Witness ==
    /\ loop_pc = "analysis"
    /\ last_op = "buffer_observation"
    /\ ret = "True"
    /\ cycle_count = 1
    /\ Len(buffer) = 1
    /\ buffer[1].timestamp >= last_thinking_cycle

\* the number of times the scorer has seen the context of hash h
TimesSeen(seen, h) == IF h \in DOMAIN seen THEN seen[h] ELSE 0

\* C16: an observation leaves the buffer only in the step of a thinking
\* cycle, which scores it, or when it is the oldest of a full buffer and a
\* new observation is accepted; so an observation accepted while the
\* escalations of a cycle are out stays in the buffer when they come back.
\* The recency set and its timestamps keep the same hashes, no timestamp
\* lies in the future, and the cycle leaves the recency set as it was.
C16_Interleaving ==
    /\ [](/\ context_hashes = DOMAIN hash_timestamps
          /\ \A h \in context_hashes : hash_timestamps[h] <= now
          /\ \A i \in DOMAIN buffer : buffer[i].timestamp <= now)
    /\ [][/\ \A o \in Range(buffer) :
                o \notin Range(buffer')
                => \/ /\ LoopIterate(MaxCyclesLoop)
                      /\ cycle_count' = cycle_count + 1
                      /\ buffer' = <<>>
                      /\ context_hashes' = context_hashes
                      /\ TimesSeen(seen_contexts', o.context_hash)
                           > TimesSeen(seen_contexts, o.context_hash)
                   \/ /\ LoopObserve
                      /\ Len(buffer) = 10
                      /\ o = buffer[1]
          /\ (AnalysisRaise \/ \E rec \in RecsLoop : AnalysisReturn(rec))
             => (/\ buffer' = buffer
                 /\ context_hashes' = context_hashes
                 /\ hash_timestamps' = hash_timestamps)]_vars

\* the analysis call of the first cycle has come back and the loop sleeps;
\* the observation accepted while the call was out is still in the buffer
C16_Witness ==
    /\ loop_pc = "sleep"
    /\ last_op = "analysis_return"
    /\ cycle_count = 1
    /\ stats.observations_buffered = 2
    /\ Len(buffer) = 1
    /\ buffer[1].context_hash \in context_hashes

\* C17 as stated: when the analysis call comes back with a recommendation
\* and the user has meanwhile been idle for more than 120 s (the state has
\* moved to DEEP_REFLECTION or RESTING while the call was out), the
\* recommendation is withheld, not spoken.
C17_StateAtResolution ==
    [][\A rec \in RecsIdle :
          (/\ AnalysisReturn(rec)
           /\ rec # <<>>
           /\ now - last_activity_time > 120)
          => (/\ reaction_queue' = reaction_queue
              /\ Len(saved_thoughts') = Len(saved_thoughts) + 1)]_vars

(***************************************************************************)
(* The capture path (main.process_observation), one task for each trigger  *)
(* of get_screen_capture.  The decision of the KnowledgeGate and the       *)
(* answer of mind.analyze_image_async come from outside.  thinking_enabled *)
(* is True and nothing assigns it, so the branch of line 646 is not run.   *)
(***************************************************************************)
GateDecisions == {"KNOWN_USE_TEMPLATE", "KNOWN_USE_CACHE", "KNOWN_SKIP",
                  "UNKNOWN_URGENT", "UNKNOWN_DEFERRABLE"}

\* the decisions for which process_observation awaits mind.analyze_image_async:
\* the branch of UNKNOWN_URGENT and the final else
NeedsAnalysisAlways(decision) == TRUE

NeedsAnalysis(decision) ==
    decision \notin {"KNOWN_USE_TEMPLATE", "KNOWN_USE_CACHE", "KNOWN_SKIP"}

\* the descriptions that start with "[Local]"
LocalDescriptions == {"[Local] KB", "[Local] Recognized"}

\* `result` of a recognized context; reaction is gate_result.reaction, ""
\* for None
LocalResult(decision, reaction) ==
    IF decision = "KNOWN_SKIP"
    THEN [reaction |-> "", description |-> "[Local] Recognized"]
    ELSE [reaction |-> reaction, description |-> "[Local] KB"]

\* the test of line 681
ShowsReaction(result) ==
    \/ result.reaction # ""
    \/ result.description # "" /\ result.description \notin LocalDescriptions

\* process_observation from line 601 to its end: buffer_observation of the
\* task's context at the current time, and the entry of the reaction queue
ObservationTail(task, result) ==
    LET obs == Observation(task.window_title, task.app_name, task.app_category, TRUE)
        r == BufferAdd(buffer, context_hashes, hash_timestamps, obs, now)
    IN  /\ activity_history' =
              DequeAppend(activity_history,
                          [timestamp |-> now, window |-> task.window_title],
                          history_maxlen)
        /\ last_activity_time' = now
        /\ buffer' = r.buffer
        /\ context_hashes' = r.context_hashes
        /\ hash_timestamps' = r.hash_timestamps
        /\ stats' = Bump(Bump(stats, "observations_total"),
                         IF r.result THEN "observations_buffered"
                                     ELSE "observations_deduplicated")
        /\ ret' = (IF r.result THEN "True" ELSE "False")
        /\ reaction_queue' =
              IF ShowsReaction(result)
              THEN Append(reaction_queue,
                          [type |-> "reaction", content |-> result.reaction,
                           description |-> result.description])
              ELSE reaction_queue
        /\ UNCHANGED <<now, state, seen_contexts, last_significant_time,
                       last_thinking_cycle, last_notification_time, saved_thoughts,
                       cycle_count, gemini_call_count, transition_log, cycle_result>>
        /\ UNCHANGED loop_vars

\* a sequence without its i-th element
RemoveAt(seq, i) == SubSeq(seq, 1, i - 1) \o SubSeq(seq, i + 1, Len(seq))

\* process_observation from its start to its await of the analysis, or to
\* its end when the gate recognizes the context
ProcessObservation(window_title, app_name, app_category, decision, reaction, cap) ==
    LET task == [window_title |-> window_title, app_name |-> app_name,
                 app_category |-> app_category, decision |-> decision]
    IN  /\ stats.observations_total + Len(capture_tasks) < cap
        /\ last_op' = "process_observation"
        /\ UNCHANGED outer_vars
        /\ UNCHANGED <<score_ret, score_args>>
        /\ IF NeedsAnalysis(decision)
           THEN /\ capture_tasks' = Append(capture_tasks, task)
                /\ ret' = "None"
                /\ UNCHANGED now
                /\ UNCHANGED engine_vars
                /\ UNCHANGED loop_vars
           ELSE /\ capture_tasks' = capture_tasks
                /\ ObservationTail(task, LocalResult(decision, reaction))

\* mind.analyze_image_async answers the i-th suspended task with a
\* description (its reaction is ""), and process_observation runs to its end
ImageAnalysisReturn(i, description) ==
    /\ i \in DOMAIN capture_tasks
    /\ last_op' = "image_analysis_return"
    /\ UNCHANGED outer_vars
    /\ UNCHANGED <<score_ret, score_args>>
    /\ capture_tasks' = RemoveAt(capture_tasks, i)
    /\ ObservationTail(capture_tasks[i], [reaction |-> "", description |-> description])

\* a call of the i-th suspended task between its await and buffer_observation
\* raises (log_activity, fog_layer.add_observation, database.add_memory,
\* knowledge_engine.process_observation): the except of process_observation
\* prints, and nothing is buffered
ImageAnalysisRaise(i) ==
    /\ i \in DOMAIN capture_tasks
    /\ last_op' = "image_analysis_raise"
    /\ UNCHANGED outer_vars
    /\ UNCHANGED <<score_ret, score_args>>
    /\ ret' = "None"
    /\ capture_tasks' = RemoveAt(capture_tasks, i)
    /\ UNCHANGED now
    /\ UNCHANGED engine_vars
    /\ UNCHANGED loop_vars

(***************************************************************************)
(* SpecCapture: the capture path under every decision of the gate.         *)
(***************************************************************************)
\* <<app_name, window_title, app_category>>
ContextsCapture == {<<(<<"c">>), (<<"m">>), "work">>, <<(<<"b">>), (<<"n">>), "media">>}
InstantsCapture == {1, 31}
ReactionsCapture == {"", "nice"}
DescriptionsCapture == {"", "cool"}

CaptureObserve ==
    \E c \in ContextsCapture, decision \in GateDecisions, reaction \in ReactionsCapture :
        ProcessObservation(c[2], c[1], c[3], decision, reaction, MaxObsCapture)

CaptureAnalysed ==
    \E i \in DOMAIN capture_tasks, description \in DescriptionsCapture :
        ImageAnalysisReturn(i, description)

CaptureFailed == \E i \in DOMAIN capture_tasks : ImageAnalysisRaise(i)

NextCapture ==
    \/ \E t \in InstantsCapture : Tick(t)
    \/ CaptureObserve
    \/ CaptureAnalysed
    \/ CaptureFailed

SpecCapture == Init /\ [][NextCapture]_vars

\* C18 as stated: an unknown-urgent observation is sent to analysis at once
\* and is never pushed into the buffer; of all observations only the
\* unknown-deferrable ones reach buffer_observation.
C18_UrgentBypassesBuffer ==
    [][/\ \A c \in ContextsCapture, reaction \in ReactionsCapture :
             ProcessObservation(c[2], c[1], c[3], "UNKNOWN_URGENT", reaction, MaxObsCapture)
             => Len(capture_tasks') = Len(capture_tasks) + 1
       /\ \A i \in DOMAIN capture_tasks, description \in DescriptionsCapture :
             (/\ ImageAnalysisReturn(i, description)
              /\ capture_tasks[i].decision = "UNKNOWN_URGENT")
             => (/\ buffer' = buffer
                 /\ stats'.observations_total = stats.observations_total)
       /\ \A c \in ContextsCapture, reaction \in ReactionsCapture,
             decision \in {"KNOWN_USE_TEMPLATE", "KNOWN_USE_CACHE", "KNOWN_SKIP"} :
             ProcessObservation(c[2], c[1], c[3], decision, reaction, MaxObsCapture)
             => (/\ buffer' = buffer
                 /\ stats'.observations_total = stats.observations_total)]_vars

\* C19 as stated: for an unknown-deferrable observation the capture path
\* starts no analysis call; the observation goes to the buffer at once.
C19_DeferrableNotAnalysed ==
    [][\A c \in ContextsCapture, reaction \in ReactionsCapture :
          ProcessObservation(c[2], c[1], c[3], "UNKNOWN_DEFERRABLE", reaction, MaxObsCapture)
          => (/\ capture_tasks' = capture_tasks
              /\ stats'.observations_total = stats.observations_total + 1)]_vars

\* C20: for a context the gate recognizes (template, cache, or no reaction
\* needed) process_observation starts no analysis call and runs to its end
\* in one step; the reaction queue gets the cached reaction when there is
\* one, and nothing otherwise.
C20_KnownShortCircuit ==
    [][\A c \in ContextsCapture, reaction \in ReactionsCapture,
          decision \in {"KNOWN_USE_TEMPLATE", "KNOWN_USE_CACHE", "KNOWN_SKIP"} :
          ProcessObservation(c[2], c[1], c[3], decision, reaction, MaxObsCapture)
          => (/\ capture_tasks' = capture_tasks
              /\ stats'.observations_total = stats.observations_total + 1
              /\ reaction_queue' =
                   IF decision # "KNOWN_SKIP" /\ reaction # ""
                   THEN Append(reaction_queue,
                               [type |-> "reaction", content |-> reaction,
                                description |-> "[Local] KB"])
                   ELSE reaction_queue)]_vars

\* a recognized context has gone through: its cached reaction is queued, no
\* analysis call is out
C20_Witness ==
    /\ last_op = "process_observation"
    /\ capture_tasks = <<>>
    /\ stats.observations_total = 1
    /\ Len(reaction_queue) = 1
    /\ reaction_queue[1].content = "nice"
    /\ reaction_queue[1].description = "[Local] KB"

(***************************************************************************)
(* SpecScore: SignificanceScorer driven through score and                  *)
(* mark_significant, over observations of two applications, every known    *)
(* category and an unknown one, every relation to the previous             *)
(* observation, and activity intensities from 0 to 1.                      *)
(***************************************************************************)
\* SignificanceScorer.score, called on its own
ScoreCall(obs, previous_obs, ai) ==
    /\ score_ret' = score(obs, previous_obs, ai, seen_contexts,
                          last_significant_time, now)
    /\ score_args' = <<obs, previous_obs, ai>>
    /\ seen_contexts' = MarkSeen(seen_contexts, obs.context_hash)
    /\ last_op' = "score"
    /\ UNCHANGED outer_vars
    /\ ret' = "None"
    /\ UNCHANGED <<now, state, buffer, context_hashes, hash_timestamps,
                   last_activity_time, activity_history, last_significant_time,
                   last_thinking_cycle, last_notification_time, saved_thoughts,
                   cycle_count, gemini_call_count, stats, reaction_queue,
                   transition_log, cycle_result, capture_tasks>>
    /\ UNCHANGED loop_vars

\* SignificanceScorer.mark_significant, called on its own
MarkSignificant ==
    /\ last_significant_time' = now
    /\ last_op' = "mark_significant"
    /\ UNCHANGED outer_vars
    /\ ret' = "None"
    /\ UNCHANGED <<now, state, buffer, context_hashes, hash_timestamps,
                   last_activity_time, activity_history, seen_contexts,
                   last_thinking_cycle, last_notification_time, saved_thoughts,
                   cycle_count, gemini_call_count, stats, reaction_queue,
                   transition_log, cycle_result, capture_tasks, score_ret, score_args>>
    /\ UNCHANGED loop_vars

\* <<app_name, window_title>>
ContextsScore == {<<(<<"c">>), (<<"m">>)>>, <<(<<"b">>), (<<"m">>)>>}
CategoriesScore == {"Development", "media", "games"}
IntensitiesScore == {0, 5, 10}
InstantsScore == {300, 301}

ObservationsScore ==
    {Observation(c[2], c[1], category, TRUE) :
        c \in ContextsScore, category \in CategoriesScore}

ScoreStep ==
    \E obs \in ObservationsScore, ai \in IntensitiesScore :
        \E previous_obs \in {<<>>} \cup {<<p>> : p \in ObservationsScore} :
            /\ SeenCount(seen_contexts, obs.context_hash) < MaxSeen
            /\ ScoreCall(obs, previous_obs, ai)

NextScore ==
    \/ \E t \in InstantsScore : Tick(t)
    \/ ScoreStep
    \/ MarkSignificant

SpecScore == Init /\ [][NextScore]_vars

\* the weighted sum of the last call in units of 1/200 over (2 + seen_count),
\* before the cap: novelty 0.3 / (1 + seen_count / 2), category weight times
\* 0.2, the bonus for the change of context, (1 - intensity) times 0.15, and
\* 0.1 after more than 300 s without a significant observation; seen_count is
\* what the hash had been seen before the call
WeightedSum(bonus) ==
    LET obs == score_args[1]
        ai == score_args[3]
        n == seen_contexts[obs.context_hash] - 1
        weight == CASE obs.app_category = "Development" -> 6
                    [] obs.app_category = "media" -> 3
                    [] OTHER -> 2
        stale == IF now - last_significant_time > 300 THEN 20 ELSE 0
    IN  <<120 + (weight * 4 + bonus + (10 - ai) * 3 + stale) * (2 + n), 200 * (2 + n)>>

\* the bonus of the code: 0.2 for another application and 0.15 for another
\* category, each on its own; 0.1 without a previous observation
BonusIndependent ==
    LET obs == score_args[1]
        previous_obs == score_args[2]
    IN  IF previous_obs = <<>> THEN 20
        ELSE (IF obs.app_name # previous_obs[1].app_name THEN 40 ELSE 0)
             + (IF obs.app_category # previous_obs[1].app_category THEN 30 ELSE 0)

\* the bonus as C26 states it: 0.15 for another category only on top of the
\* 0.2 for another application
BonusNested ==
    LET obs == score_args[1]
        previous_obs == score_args[2]
    IN  IF previous_obs = <<>> THEN 20
        ELSE IF obs.app_name # previous_obs[1].app_name
             THEN 40 + (IF obs.app_category # previous_obs[1].app_category
                        THEN 30 ELSE 0)
             ELSE 0

FracEQ(a, b) == a[1] * b[2] = b[1] * a[2]

\* C21: every value score returns lies in [0, 1]; a call whose weighted sum
\* exceeds 1 returns exactly 1, and every other call returns the weighted
\* sum.
C21_ScoreBounded ==
    /\ score_ret[2] > 0
    /\ 0 <= score_ret[1]
    /\ score_ret[1] <= score_ret[2]
    /\ last_op = "score"
       => LET sum == WeightedSum(BonusIndependent)
          IN  IF sum[1] >= sum[2] THEN score_ret = <<1, 1>>
              ELSE FracEQ(score_ret, sum)

\* every bonus at once (0.3 + 0.12 + 0.35 + 0.15 + 0.1 = 1.02): the call
\* returned 1
C21_Witness ==
    /\ last_op = "score"
    /\ score_ret = <<1, 1>>
    /\ WeightedSum(BonusIndependent) = <<408, 400>>

\* C22: with the observation, the previous observation, the activity
\* intensity and the staleness held fixed, the next call for the same hash
\* would return no more than the call just made returned.
C22_NoveltyDecay ==
    last_op = "score"
    => FracGE(score_ret,
              score(score_args[1], score_args[2], score_args[3], seen_contexts,
                    last_significant_time, now))

\* the second call for a hash (novelty 0.2, category 0.04, first 0.1, no
\* focus bonus, not stale) returned 0.34, and a third would return 0.29
C22_Witness ==
    /\ last_op = "score"
    /\ score_ret = <<204, 600>>
    /\ seen_contexts[score_args[1].context_hash] = 2
    /\ score(score_args[1], score_args[2], score_args[3], seen_contexts,
             last_significant_time, now) = <<232, 800>>

\* C26 as stated: the bonus for the change of context is 0.2 when the
\* application differs, 0.15 more when the category differs as well, nothing
\* when the application is the same, and a flat 0.1 without a previous
\* observation.
C26_AppSwitchBonus ==
    last_op = "score"
    => LET sum == WeightedSum(BonusNested)
       IN  IF sum[1] >= sum[2] THEN score_ret = <<1, 1>>
           ELSE FracEQ(score_ret, sum)

(***************************************************************************)
(* SpecFault: the program of SpecLoop with exceptions raised inside an     *)
(* iteration of the poll loop, outside process_significant_observation and *)
(* run_deep_thinking, which catch their own.                               *)
(***************************************************************************)
\* where an iteration raises: in update_state after the state is assigned
\* (log_activity of the transition), or at the end of run_thinking_cycle
\* (log_activity of the results), the result never returned
RaisePoints == {"update_state", "run_thinking_cycle"}

\* the except clause ends the loop
LoopIterateRaiseFatal(cap, where) ==
    LET u == UpdateStateEffect
    IN  /\ loop_pc = "sleep"
        /\ now >= sleep_until
        /\ where = "update_state"
        /\ u.state # state
        /\ last_op' = "loop_raise"
        /\ UNCHANGED outer_vars
        /\ ret' = where
        /\ state' = u.state
        /\ transition_log' = u.transition_log
        /\ loop_pc' = "dead"
        /\ UNCHANGED <<score_ret, score_args, capture_tasks, loop_state, loop_todo,
                       loop_obs, sleep_until, last_thinking_cycle, cycle_count,
                       seen_contexts, last_significant_time, buffer,
                       context_hashes, hash_timestamps, cycle_result, stats,
                       now, last_activity_time, activity_history,
                       last_notification_time, reaction_queue, saved_thoughts,
                       gemini_call_count>>

\* one iteration of thinking_cycle_loop that raises: `except Exception`
\* prints, and the loop goes into asyncio.sleep(5)
LoopIterateRaise(cap, where) ==
    LET u == UpdateStateEffect
        r == ThinkingCycle
    IN  /\ loop_pc = "sleep"
        /\ now >= sleep_until
        /\ last_op' = "loop_raise"
        /\ UNCHANGED outer_vars
        /\ ret' = where
        /\ state' = u.state
        /\ transition_log' = u.transition_log
        /\ loop_pc' = "sleep"
        /\ sleep_until' = now + poll_delay
        /\ loop_todo' = <<>>
        /\ loop_obs' = <<>>
        /\ IF where = "update_state"
           THEN /\ u.state # state
                /\ UNCHANGED <<loop_state, last_thinking_cycle, cycle_count,
                               seen_contexts, last_significant_time, buffer,
                               context_hashes, hash_timestamps, cycle_result,
                               stats>>
           ELSE /\ should_run_thinking_cycle
                /\ buffer # <<>>
                /\ cycle_count < cap
                /\ loop_state' = u.state
                /\ last_thinking_cycle' = now
                /\ cycle_count' = cycle_count + 1
                /\ seen_contexts' = r.seen
                /\ last_significant_time' = r.last_sig
                /\ buffer' = r.buffer
                /\ context_hashes' = r.context_hashes
                /\ hash_timestamps' = r.hash_timestamps
                /\ cycle_result' = <<>>
                /\ stats' = [stats EXCEPT !.significant_count = @ + Len(r.significant)]
        /\ UNCHANGED <<score_ret, score_args, capture_tasks>>
        /\ UNCHANGED <<now, last_activity_time, activity_history,
                       last_notification_time, reaction_queue, saved_thoughts,
                       gemini_call_count>>

InstantsFault == {10, 20, 140, 145}
RecsFault == {<<>>, <<"h", "i">>}

FaultObserve == \E c \in ContextsLoop :
                    BufferObservation(c[2], c[1], c[3], TRUE, MaxObsFault)

NextFault ==
    \/ \E t \in InstantsFault : Tick(t)
    \/ FaultObserve
    \/ LoopIterate(MaxCyclesFault)
    \/ \E where \in RaisePoints : LoopIterateRaise(MaxCyclesFault, where)
    \/ \E rec \in RecsFault : AnalysisReturn(rec)
    \/ AnalysisRaise

SpecFault == Init /\ [][NextFault]_vars

\* C23: the poll loop is always either in its sleep or in the await of an
\* analysis call, never ended; an iteration that raised has left the loop
\* in the sleep that ends one poll delay (5 s) later, an analysis call that
\* raised has left it there or in its next analysis call.
C23_NothingFatal ==
    /\ loop_pc \in {"sleep", "analysis"}
    /\ last_op = "loop_raise"
       => loop_pc = "sleep" /\ sleep_until = now + poll_delay
    /\ last_op = "analysis_raise"
       => \/ loop_pc = "analysis"
          \/ loop_pc = "sleep" /\ sleep_until = now + poll_delay

\* an iteration has run after one in which run_thinking_cycle raised: a
\* significant observation was counted and neither consulted nor filtered
C23_Witness ==
    /\ last_op = "loop_iterate"
    /\ stats.significant_count > stats.gemini_consulted + stats.edge_filtered
    /\ cycle_count = 2

\* C24 as stated: every observation whose path ends (at once for a
\* recognized context, or when its suspended task ends, however it ends)
\* has recorded exactly one activity: one event more in the history and the
\* idle clock at the current time.
C24_OneActivityPerObservation ==
    [][(\/ last_op' = "process_observation" /\ capture_tasks' = capture_tasks
        \/ Len(capture_tasks') < Len(capture_tasks))
       => (/\ Len(activity_history') = Len(activity_history) + 1
           /\ last_activity_time' = now)]_vars

\* the scoring of a cycle as C25 states it: every observation of the cycle
\* is scored against the staleness clock as it stood when the cycle began
\* (last_sig), and the clock is reset once, after the scoring, when at least
\* one observation was significant; acc is [seen, significant]
RECURSIVE ScoreLoopMarkOnce(_, _, _, _, _, _)
ScoreLoopMarkOnce(observations, previous_obs, ai, acc, last_sig, t) ==
    IF observations = <<>> THEN acc
    ELSE LET o == Head(observations)
             sc == score(o, previous_obs, ai, acc.seen, last_sig, t)
             obs == [o EXCEPT !.significance_score = sc]
         IN  ScoreLoopMarkOnce(Tail(observations), <<obs>>, ai,
                               [seen |-> MarkSeen(acc.seen, o.context_hash),
                                significant |->
                                    IF FracGE(sc, significance_threshold)
                                    THEN Append(acc.significant, obs)
                                    ELSE acc.significant],
                               last_sig, t)

\* C25 as stated: a thinking cycle resets the staleness clock once, after
\* its observations are scored, so every observation of the cycle is scored
\* with the staleness bonus the first one got.
C25_MarkOncePerCycle ==
    [][cycle_count' = cycle_count + 1
       => LET acc == ScoreLoopMarkOnce(buffer, <<>>, get_activity_intensity,
                                       [seen |-> seen_contexts, significant |-> <<>>],
                                       last_significant_time, now)
          IN  /\ cycle_result' = acc.significant
              /\ last_significant_time' =
                    IF acc.significant # <<>> THEN now ELSE last_significant_time]_vars

(***************************************************************************)
(* SpecTiers: the poll loop over observations of one application in the    *)
(* category of least weight, with and without image data, so that a cycle  *)
(* reads observations above and below the significance threshold.          *)
(***************************************************************************)
\* <<app_name, window_title, app_category>>
ContextsTiers == {<<(<<"c">>), (<<"m">>), "other">>, <<(<<"c">>), (<<"n">>), "other">>}
InstantsTiers == {10, 45}
RecsTiers == {<<"h", "i">>}

TiersObserve ==
    \E c \in ContextsTiers, image_bytes \in BOOLEAN :
        BufferObservation(c[2], c[1], c[3], image_bytes, MaxObsTiers)

NextTiers ==
    \/ \E t \in InstantsTiers : Tick(t)
    \/ TiersObserve
    \/ LoopIterate(MaxCyclesTiers)
    \/ \E rec \in RecsTiers : AnalysisReturn(rec)

SpecTiers == Init /\ [][NextTiers]_vars

\* what the scorer has seen of each hash when the i-th observation of the
\* buffer is scored: the counts before the cycle and the observations
\* before it in the buffer
SeenBefore(i) ==
    [h \in DOMAIN seen_contexts \cup {buffer[j].context_hash : j \in 1..(i - 1)} |->
        TimesSeen(seen_contexts, h)
        + Cardinality({j \in 1..(i - 1) : buffer[j].context_hash = h})]

\* the score of the i-th observation of the buffer in a cycle run now: scored
\* against the (i-1)-th, none for the first, with the activity intensity of
\* now, after the observations before it
CycleScores[i \in 1..Len(buffer)] ==
    score(buffer[i],
          IF i = 1 THEN <<>> ELSE <<buffer[i - 1]>>,
          get_activity_intensity,
          SeenBefore(i),
          IF \E j \in 1..(i - 1) : FracGE(CycleScores[j], <<2, 5>>)
          THEN now ELSE last_significant_time,
          now)

IsSignificant(obs) == FracGE(obs.significance_score, <<2, 5>>)

\* C27: a thinking cycle returns, in the order of the buffer, exactly the
\* observations whose score is at least 0.4, where the first observation is
\* scored with no predecessor and each later one against the observation
\* just before it in the buffer, all with the activity intensity read when
\* the cycle starts.
C27_CycleOrder ==
    [][cycle_count' = cycle_count + 1
       => cycle_result' =
             SelectSeq([i \in 1..Len(buffer) |->
                           [buffer[i] EXCEPT !.significance_score = CycleScores[i]]],
                       IsSignificant)]_vars

\* the second cycle read two observations and returned the first only, with
\* its score 0.56 (novelty 0.3, category 0.04, first 0.1, focus 0.12 at
\* intensity 0.2); the second, seen before and of the same application and
\* category, scored 0.36
C27_Witness ==
    /\ last_op \in {"loop_iterate", "analysis_return"}
    /\ cycle_count = 2
    /\ stats.observations_buffered = 3
    /\ Len(cycle_result) = 1
    /\ cycle_result[1].significance_score = <<224, 400>>
    /\ seen_contexts[cycle_result[1].context_hash] = 1
    /\ \E h \in DOMAIN seen_contexts : seen_contexts[h] = 2

\* C28: a step that runs a thinking cycle leaves the buffer empty, whatever
\* the number of observations it returned as significant; so the buffer
\* only ever holds observations that came in since the last cycle and that
\* no cycle has scored.
C28_ClearedUnconditionally ==
    /\ [](\A i \in 1..Len(buffer) :
             /\ buffer[i].timestamp >= last_thinking_cycle
             /\ buffer[i].significance_score = <<0, 1>>)
    /\ [][cycle_count' = cycle_count + 1 => buffer' = <<>>]_vars

\* the second cycle read two observations, returned one, and left nothing in
\* the buffer
C28_Witness ==
    /\ last_op = "loop_iterate"
    /\ cycle_count = 2
    /\ last_thinking_cycle = now
    /\ stats.observations_buffered = 3
    /\ stats.significant_count = 2
    /\ Len(cycle_result) = 1
    /\ buffer = <<>>

\* the significant observations the for loop of thinking_cycle_loop has
\* passed over in the step just taken, without a call: those it was to
\* visit, less the one it hands to the analysis and those it leaves
PassedOver ==
    LET todo == IF last_op' = "loop_iterate" THEN cycle_result' ELSE loop_todo
    IN  SubSeq(todo, 1, Len(todo) - Len(loop_todo') - Len(loop_obs'))

\* C29: the observation of an analysis call of the poll loop is one of the
\* significant observations of the last cycle, carries image data and has a
\* score of at least gemini_threshold; a step of the loop that starts an
\* analysis call counts one consultation and one call, and no other step
\* counts any; the observations the loop passes over without a call are
\* those without image data, which count nothing, and those with image data
\* and a score below gemini_threshold, which count one edge_filtered each.
C29_ConsultGate ==
    /\ [](loop_pc = "analysis"
          => /\ Len(loop_obs) = 1
             /\ loop_obs[1] \in Range(cycle_result)
             /\ loop_obs[1].image_bytes
             /\ FracGE(loop_obs[1].significance_score, gemini_threshold))
    /\ [][IF /\ last_op' \in {"loop_iterate", "analysis_return", "analysis_raise"}
             /\ loop_pc' = "analysis"
          THEN /\ stats'.gemini_consulted = stats.gemini_consulted + 1
               /\ gemini_call_count' = gemini_call_count + 1
          ELSE /\ stats'.gemini_consulted = stats.gemini_consulted
               /\ gemini_call_count' = gemini_call_count]_vars
    /\ [][last_op' \in {"loop_iterate", "analysis_return", "analysis_raise"}
          => /\ \A i \in 1..Len(PassedOver) :
                   \/ ~PassedOver[i].image_bytes
                   \/ FracLT(PassedOver[i].significance_score, gemini_threshold)
             /\ stats'.edge_filtered = stats.edge_filtered
                   + Cardinality({i \in 1..Len(PassedOver) : PassedOver[i].image_bytes})]_vars

\* a cycle returned two significant observations, the first without image
\* data: the loop passed over it and called the analysis for the second,
\* one consultation counted
C29_Witness ==
    /\ last_op = "loop_iterate"
    /\ loop_pc = "analysis"
    /\ Len(cycle_result) = 2
    /\ ~cycle_result[1].image_bytes
    /\ loop_obs = <<cycle_result[2]>>
    /\ stats.gemini_consulted = 1
    /\ stats.significant_count = 2

\* C30: every observation a cycle returns as significant passes
\* should_consult_gemini, so the poll loop never counts an edge_filtered and
\* never saves a thought with the reason "Below Gemini threshold"; every
\* significant observation that carries image data is consulted.
C30_TiersCoincide ==
    /\ \A i \in 1..Len(cycle_result) : should_consult_gemini(cycle_result[i])
    /\ stats.edge_filtered = 0
    /\ \A i \in 1..Len(saved_thoughts) :
          saved_thoughts[i].reason # "Below Gemini threshold"

\* two cycles returned three significant observations with image data, one
\* of them with a score between 0.4 and 0.6; all three were consulted and
\* none was filtered
C30_Witness ==
    /\ loop_pc = "sleep"
    /\ stats.significant_count = 3
    /\ stats.gemini_consulted = 3
    /\ stats.edge_filtered = 0
    /\ \E i \in 1..Len(cycle_result) :
          /\ cycle_result[i].image_bytes
          /\ FracLT(cycle_result[i].significance_score, <<3, 5>>)

\* C31: a call of update_state writes the state (and logs the transition)
\* and nothing else: the buffer, the recency set and its timestamps, the
\* idle clock and the activity history, the scorer's counts and staleness
\* clock, the cycle clock and count, the cooldown clock, the statistics, the
\* call count and the saved and pending thoughts are as before.
C31_UpdateStateFrame ==
    [][UpdateState
       => UNCHANGED <<buffer, context_hashes, hash_timestamps, last_activity_time,
                      activity_history, seen_contexts, last_significant_time,
                      last_thinking_cycle, cycle_count, last_notification_time,
                      stats, gemini_call_count, saved_thoughts, pending_thoughts,
                      now>>]_vars

\* update_state moved the state from DEEP_REFLECTION to RESTING over a
\* buffer that still holds an observation
C31_Witness ==
    /\ last_op = "update_state"
    /\ transition_log = <<"deep", "resting">>
    /\ Len(buffer) > 0
    /\ stats.observations_buffered > 0
    /\ activity_history # <<>>

\* C32: an iteration of the poll loop runs a thinking cycle exactly when at
\* least 10 s have passed since the start of the last cycle, and the cycle
\* sets the cycle clock to the current time, over an empty buffer too; so
\* two cycles in a row start at least 10 s apart.
C32_CycleSpacing ==
    [][last_op' = "loop_iterate"
       => IF now - last_thinking_cycle >= 10
          THEN cycle_count' = cycle_count + 1 /\ last_thinking_cycle' = now
          ELSE cycle_count' = cycle_count
               /\ last_thinking_cycle' = last_thinking_cycle]_vars

\* the second cycle ran over an empty buffer and reset the cycle clock, and
\* the iteration 5 s later ran no cycle
C32_Witness ==
    /\ last_op = "loop_iterate"
    /\ cycle_count = 2
    /\ now - last_thinking_cycle = 5
    /\ stats.observations_total = 0
    /\ buffer = <<>>

(***************************************************************************)
(* SpecLive: the program of SpecLoop under fairness.  The clock reaches    *)
(* every instant, the poll loop is scheduled when its sleep is over, and   *)
(* every analysis call returns or raises; a call returns before the clock  *)
(* moves to its last two instants, so that the loop is seen to run once    *)
(* more after every call.                                                  *)
(***************************************************************************)
\* <<app_name, window_title, app_category>>
ContextsLive == {<<(<<"c">>), (<<"m">>), "work">>}
InstantsLive == {10, 140, 150, 460, 470}
RecsLive == {<<>>, <<"h", "i">>}
\* the instant before which every analysis call has returned or raised
HorizonLive == 460
\* the last instant of the clock
LastInstantLive == EpochStart + 470

LiveTick == \E t \in InstantsLive :
                /\ loop_pc = "analysis" => t < HorizonLive
                /\ Tick(t)

LiveObserve == \E c \in ContextsLive :
                   BufferObservation(c[2], c[1], c[3], TRUE, MaxObsLive)

LiveAnalysis ==
    \/ \E rec \in RecsLive : AnalysisReturn(rec)
    \/ AnalysisRaise

NextLive ==
    \/ LiveTick
    \/ LiveObserve
    \/ LoopIterate(MaxCyclesLive)
    \/ LiveAnalysis

\* the sleep of the poll loop is over: LoopIterate is enabled
LoopDue ==
    /\ loop_pc = "sleep"
    /\ now >= sleep_until
    /\ should_run_thinking_cycle => cycle_count < MaxCyclesLive

\* weak fairness of LoopIterate, with its enabling condition written out
LoopFairness ==
    \/ []<>(~LoopDue)
    \/ []<><<LoopIterate(MaxCyclesLive)>>_vars

SpecLive ==
    /\ Init
    /\ [][NextLive]_vars
    /\ WF_vars(LiveTick)
    /\ LoopFairness
    /\ WF_vars(LiveAnalysis)

\* C33: an observation in the buffer (accepted before the last instant of
\* the clock) is eventually out of it, whatever the state of the engine:
\* the buffer is eventually empty.
C33_BufferDrained ==
    (buffer # <<>> /\ now < LastInstantLive) ~> (buffer = <<>>)

\* a cycle has taken the observation out of the buffer while the engine was
\* in DEEP_REFLECTION
C33_Witness ==
    /\ last_op = "loop_iterate"
    /\ state = "deep"
    /\ buffer = <<>>
    /\ Len(cycle_result) = 1
    /\ cycle_result[1].timestamp < now

\* the times at which activity can have been recorded last
ActivityTimesLive == {EpochStart} \cup {EpochStart + t : t \in InstantsLive}

\* C39: once more than 300 s have passed since the last recorded activity,
\* the state eventually is RESTING unless activity is recorded again; from
\* RESTING the state stays RESTING as long as the idle duration is above
\* 300 s, that is, until activity is recorded; and the poll loop sets
\* DEEP_REFLECTION only at an idle duration above 120 s and of at most 300 s.
C39_EventuallyResting ==
    /\ \A a \in ActivityTimesLive :
          (last_activity_time = a /\ now - a > resting_after)
          ~> (state = "resting" \/ last_activity_time # a)
    /\ [][(state = "resting" /\ now' - last_activity_time' > resting_after)
          => state' = "resting"]_vars
    /\ [][(last_op' = "loop_iterate" /\ state' = "deep")
          => (/\ now - last_activity_time > idle_threshold
              /\ now - last_activity_time <= resting_after)]_vars

\* the poll loop found the user idle for 130 s, then for 450 s: the state
\* went through DEEP_REFLECTION to RESTING
C39_Witness ==
    /\ last_op = "loop_iterate"
    /\ state = "resting"
    /\ transition_log = <<"deep", "resting">>
    /\ now - last_activity_time = 450

(***************************************************************************)
(* SpecSlow: the poll loop with analysis calls that stay out for more than *)
(* two minutes while the capture path goes on recording activity.          *)
(***************************************************************************)
\* <<app_name, window_title, app_category>>
ContextsSlow == {<<(<<"c">>), (<<"m">>), "work">>}
InstantsSlow == {10, 310, 440, 445}
RecsSlow == {<<>>, <<"h", "i">>}

SlowObserve == \E c \in ContextsSlow :
                   BufferObservation(c[2], c[1], c[3], TRUE, MaxObsSlow)

NextSlow ==
    \/ \E t \in InstantsSlow : Tick(t)
    \/ SlowObserve
    \/ LoopIterate(MaxCyclesSlow)
    \/ \E rec \in RecsSlow : AnalysisReturn(rec)

SpecSlow == Init /\ [][NextSlow]_vars

RecordActivity(window_title) ==
    /\ activity_history' =
          DequeAppend(activity_history,
                      [timestamp |-> now, window |-> window_title], history_maxlen)
    /\ last_activity_time' = now
    /\ last_op' = "record_activity"
    /\ ret' = "None"
    /\ UNCHANGED outer_vars
    /\ UNCHANGED <<score_ret, score_args>>
    /\ UNCHANGED capture_tasks
    /\ UNCHANGED <<now, state, buffer, context_hashes, hash_timestamps,
                   seen_contexts, last_significant_time, last_thinking_cycle,
                   last_notification_time, saved_thoughts, cycle_count,
                   gemini_call_count, stats, reaction_queue, transition_log,
                   cycle_result>>
    /\ UNCHANGED loop_vars

InstantsActivity == {60, 61}

ActivityRecord ==
    \E k \in {LastTitleLen, LastTitleLen + 1} :
        /\ k <= MaxTitles
        /\ k = LastTitleLen
           => \/ k <= 1 /\ Len(activity_history) < MaxRepeats
              \/ k = MaxTitles
        /\ RecordActivity(Window(k))

\* the clock moves while the titles still vary
ActivityTick ==
    /\ LastTitleLen < MaxTitles
    /\ \E t \in InstantsActivity : Tick(t)

NextActivity ==
    \/ ActivityTick
    \/ ActivityRecord

SpecActivity == Init /\ [][NextActivity]_vars

\* the events of the trailing 60 s
InWindow == {i \in 1..Len(activity_history) : now - activity_history[i].timestamp <= 60}

\* the distinct titles among them, the empty title aside
TitlesInWindow == {activity_history[i].window : i \in InWindow} \ {<<>>}

\* C34: the activity intensity (in tenths) is 0 with fewer than 2 events in
\* the trailing 60 s, and otherwise the number of distinct non-empty titles
\* among those events, at most 10; it lies between 0 and 10 tenths; and the
\* activity history holds at most 100 events.
C34_ActivityIntensity ==
    /\ get_activity_intensity =
          IF Cardinality(InWindow) < 2 THEN 0
          ELSE IF Cardinality(TitlesInWindow) >= 10 THEN 10
          ELSE Cardinality(TitlesInWindow)
    /\ get_activity_intensity \in 0..10
    /\ Len(activity_history) <= 100

\* 11 distinct titles in the trailing 60 s give the intensity 1, in a
\* history that is full
C34_Witness ==
    /\ last_op = "record_activity"
    /\ Cardinality(TitlesInWindow) = 11
    /\ get_activity_intensity = 10
    /\ Len(activity_history) = 100

(***************************************************************************)
(* SpecDeep: run_deep_thinking over the episodes that the fog layer hands  *)
(* out.  An episode is its observation count, primary app and primary      *)
(* activity; a context signature "app:activity" is the pair of the two.    *)
(* The fog layer and the staging store are not part of the sources at      *)
(* hand: get_pending_episodes returns any list of episodes, and            *)
(* add_to_staging_kb records the signature and returns (record writes are  *)
(* fire-and-forget and never block the caller).                            *)
(***************************************************************************)
\* the same loop without the test of the observation count
ForEpisodesNoSkip(episodes, i, kb) ==
    LET F[j \in 1..(Len(episodes) + 1)] ==
            IF j > Len(episodes) THEN <<>>
            ELSE IF episodes[j].primary_app # "" /\ episodes[j].primary_activity # ""
                 THEN <<<<episodes[j].primary_app, episodes[j].primary_activity>>>> \o F[j + 1]
                 ELSE F[j + 1]
    IN  kb \o F[i]

\* run_deep_thinking: for episode in pending_episodes, from episode i on;
\* the value is the staging store after the loop
ForEpisodes(episodes, i, kb) ==
    LET F[j \in 1..(Len(episodes) + 1)] ==
            IF j > Len(episodes) THEN <<>>
            ELSE IF episodes[j].observation_count < 2 THEN F[j + 1]
            ELSE IF episodes[j].primary_app # "" /\ episodes[j].primary_activity # ""
                 THEN <<<<episodes[j].primary_app, episodes[j].primary_activity>>>> \o F[j + 1]
                 ELSE F[j + 1]
    IN  kb \o F[i]

\* run_deep_thinking
RunDeepThinking(episodes) ==
    /\ pending_episodes' = episodes
    /\ staging_kb' = ForEpisodes(episodes, 1, staging_kb)
    /\ last_op' = "run_deep_thinking"
    /\ ret' = "None"
    /\ UNCHANGED <<pending_thoughts, chat_response>>
    /\ UNCHANGED <<score_ret, score_args>>
    /\ UNCHANGED capture_tasks
    /\ UNCHANGED now
    /\ UNCHANGED engine_vars
    /\ UNCHANGED loop_vars

EpisodesDeep ==
    [observation_count : {1, 2},
     primary_app : {"c", "b", ""},
     primary_activity : {"coding"}]
    \cup [observation_count : {1, 2}, primary_app : {"c"}, primary_activity : {""}]

EpisodeListsDeep == UNION {[1..n -> EpisodesDeep] : n \in 0..MaxEpisodes}

DeepRun ==
    /\ Len(staging_kb) < MaxStaged
    /\ \E episodes \in EpisodeListsDeep : RunDeepThinking(episodes)

NextDeep == DeepRun

SpecDeep == Init /\ [][NextDeep]_vars

\* the pending episodes with at least 2 observations and a known primary
\* app and activity, in their order
Storable ==
    SelectSeq(pending_episodes,
              LAMBDA ep : /\ ep.observation_count >= 2
                          /\ ep.primary_app # ""
                          /\ ep.primary_activity # "")

InstantsDedup == {30, 31}

\* the calls of buffer_observation so far that gave the first window
FirstWindowCalls ==
    {i \in 1..Len(activity_history) : activity_history[i].window = Window(1)}

\* the length of the longest title so far: the titles so far are the
\* titles of the lengths 1 to this one
HighestTitleLen ==
    Cardinality({activity_history[i].window : i \in 1..Len(activity_history)})

DedupObserve ==
    \/ /\ Cardinality(FirstWindowCalls) < MaxSameDedup
       /\ BufferObservation(Window(1), <<"c">>, "other", TRUE, MaxObsDedup)
    \/ /\ now = EpochStart
       /\ HighestTitleLen >= 1
       /\ BufferObservation(Window(HighestTitleLen + 1), <<"c">>, "other", TRUE, MaxObsDedup)

NextDedup ==
    \/ \E t \in InstantsDedup : Tick(t)
    \/ DedupObserve
    \/ Clear

SpecDedup == Init /\ [][NextDedup]_vars

\* the hash of the i-th call of buffer_observation
CallHash(i) == hash_context(activity_history[i].window, <<"c">>)

\* the calls among the first n that the rule accepts: a call is accepted if
\* and only if no call with the same hash was accepted in the 30 s before it
RECURSIVE AcceptedUpTo(_)
AcceptedUpTo(n) ==
    IF n = 0 THEN {}
    ELSE LET before == AcceptedUpTo(n - 1)
         IN  IF \E j \in before : /\ CallHash(j) = CallHash(n)
                                  /\ activity_history[n].timestamp
                                        - activity_history[j].timestamp <= 30
             THEN before
             ELSE before \cup {n}

AcceptedCalls == AcceptedUpTo(Len(activity_history))

\* C36: add accepts an observation with hash h if and only if no observation
\* with hash h was accepted during the preceding 30 s (at exactly 30 s the
\* hash still suppresses); the timestamp kept for a hash is that of its last
\* acceptance, so a rejected duplicate does not refresh it, and neither
\* clear nor eviction from the full buffer lifts the suppression.  Two
\* entries with one hash that are in the buffer together were accepted more
\* than 30 s apart.
C36_DedupExactly ==
    LET accepted == AcceptedCalls
    IN  /\ last_op = "buffer_observation"
           => (ret = "True" <=> Len(activity_history) \in accepted)
        /\ stats.observations_buffered = Cardinality(accepted)
        /\ \A h \in context_hashes :
              \E i \in accepted :
                 /\ CallHash(i) = h
                 /\ hash_timestamps[h] = activity_history[i].timestamp
                 /\ \A j \in accepted : CallHash(j) = h => j <= i
        /\ \A i \in 1..Len(buffer) : \A j \in (i + 1)..Len(buffer) :
              buffer[i].context_hash = buffer[j].context_hash
              => buffer[j].timestamp - buffer[i].timestamp > 30

\* the first window is rejected exactly 30 s after it was accepted, its
\* entry having been evicted from the full buffer
C36_Witness ==
    /\ last_op = "buffer_observation"
    /\ ret = "False"
    /\ activity_history[Len(activity_history)].window = Window(1)
    /\ now = CallTimes[1] + 30
    /\ Len(buffer) = max_size
    /\ \A i \in 1..Len(buffer) : buffer[i].window_title # Window(1)
    /\ stats.observations_buffered = max_size + 1

(***************************************************************************)
(* SpecOrder: the concurrent process_observation tasks.  Every capture is  *)
(* triggered on a new window, whose title is one character longer than     *)
(* that of the capture before it, so the length of a title is the rank of  *)
(* its capture among the triggers.                                         *)
(***************************************************************************)
InstantsOrder == {1}

\* the captures triggered so far: those that ran to their end and those
\* that wait for the analysis
CapturesTriggered == stats.observations_total + Len(capture_tasks)

OrderObserve ==
    \E decision \in GateDecisions :
        ProcessObservation(Window(CapturesTriggered + 1), <<"c">>, "other",
                           decision, "", MaxObsOrder)

OrderAnalysed == \E i \in DOMAIN capture_tasks : ImageAnalysisReturn(i, "")

NextOrder ==
    \/ \E t \in InstantsOrder : Tick(t)
    \/ OrderObserve
    \/ OrderAnalysed

SpecOrder == Init /\ [][NextOrder]_vars

\* C37 as stated: the observations are in the buffer in the order in which
\* their captures were triggered, whatever the interleaving of the
\* process_observation tasks and the latency of the analysis.
C37_TriggerOrder ==
    \A i \in 1..Len(buffer) : \A j \in (i + 1)..Len(buffer) :
        Len(buffer[i].window_title) < Len(buffer[j].window_title)

(***************************************************************************)
(* SpecChat: chat_endpoint on a "what are you thinking" message, with      *)
(* thoughts saved and thoughts added in between.                           *)
(***************************************************************************)
\* get_pending_thoughts that leaves the list as it is
GetPendingThoughtsKeep(pending) == [thoughts |-> pending, pending |-> pending]

\* ThinkingEngine.get_pending_thoughts: a copy of the list, and the list
\* after the call
get_pending_thoughts(pending) == [thoughts |-> pending, pending |-> <<>>]

\* ThinkingEngine.add_thought
AddThought(thought) ==
    /\ pending_thoughts' = Append(pending_thoughts, thought)
    /\ last_op' = "add_thought"
    /\ ret' = "None"
    /\ UNCHANGED <<staging_kb, pending_episodes, chat_response>>
    /\ UNCHANGED <<score_ret, score_args>>
    /\ UNCHANGED capture_tasks
    /\ UNCHANGED now
    /\ UNCHANGED engine_vars
    /\ UNCHANGED loop_vars

\* chat_endpoint, the branch of the thinking phrases; raised: one of the
\* two database.add_memory calls before the return raises
ChatThinking(raised) ==
    LET got == get_pending_thoughts(pending_thoughts)
        saved == saved_thoughts
        thoughts == IF saved # <<>> THEN <<saved[Len(saved)].content>>
                    ELSE IF got.thoughts # <<>> THEN <<got.thoughts[1]>>
                    ELSE <<>>
    IN  /\ pending_thoughts' = got.pending
        /\ saved_thoughts' = IF saved # <<>> THEN <<>> ELSE saved_thoughts
        /\ chat_response' = IF raised THEN <<>> ELSE thoughts
        /\ ret' = IF raised THEN "error" ELSE "response"
        /\ last_op' = "chat_thinking"
        /\ UNCHANGED <<staging_kb, pending_episodes>>
        /\ UNCHANGED <<score_ret, score_args>>
        /\ UNCHANGED capture_tasks
        /\ UNCHANGED <<now, state, buffer, context_hashes, hash_timestamps,
                       last_activity_time, activity_history, seen_contexts,
                       last_significant_time, last_thinking_cycle,
                       last_notification_time, cycle_count, gemini_call_count,
                       stats, reaction_queue, transition_log, cycle_result>>
        /\ UNCHANGED loop_vars

PendingChat == {<<"p">>, <<"q">>}
InstantsChat == {1}

ChatSave == \E content \in ContentsThoughts :
                SaveThoughtForLater(content, "Cooldown active", <<"m">>, MaxSavedChat)

ChatAdd ==
    /\ Len(pending_thoughts) < MaxPendingChat
    /\ \E thought \in PendingChat : AddThought(thought)

ChatAsk == \E raised \in BOOLEAN : ChatThinking(raised)

NextChat ==
    \/ \E t \in InstantsChat : Tick(t)
    \/ ChatSave
    \/ ChatAdd
    \/ ChatAsk

SpecChat == Init /\ [][NextChat]_vars

\* C40: after chat_endpoint has handled a "what are you thinking" message
\* the saved thoughts and the pending thoughts are both empty, and the
\* response holds at most one thought: the most recent saved thought if
\* there was one, otherwise the first pending thought; the other thoughts
\* are gone undelivered.
C40_ChatDrainsThoughts ==
    [][last_op' = "chat_thinking"
       => /\ saved_thoughts' = <<>>
          /\ pending_thoughts' = <<>>
          /\ Len(chat_response') <= 1
          /\ ret' = "response"
             => chat_response' =
                  IF saved_thoughts # <<>>
                  THEN <<saved_thoughts[Len(saved_thoughts)].content>>
                  ELSE IF pending_thoughts # <<>>
                       THEN <<pending_thoughts[1]>>
                       ELSE <<>>]_vars

\* two thoughts were saved, the chat answered with the later one, and both
\* lists are empty
C40_Witness ==
    /\ last_op = "chat_thinking"
    /\ ret = "response"
    /\ stats.thoughts_saved = 2
    /\ chat_response = <<<<"b">>>>
    /\ saved_thoughts = <<>>
    /\ pending_thoughts = <<>>
====
